---- MODULE Spec2Model ----
(***************************************************************************)
(* Model of the vayada booking-engine backend: session resolution, tenant  *)
(* (hotel) resolution for the /admin routes, the add-on store, and the     *)
(* registration / login / password-reset lifecycle of /auth.               *)
(*                                                                         *)
(* Time is counted in hours.  Database tables are functions from the ids   *)
(* of the rows that exist to the rows.                                     *)
(***************************************************************************)
EXTENDS Integers, FiniteSets, Sequences, TLC

\* ------------------------------------------------------------------ bounds
MaxUsers == 5
MaxHotels == 3
MaxAddons == 2
MaxTime == 3
MaxResetTokens == 2

\* -------------------------------------------------------------- value sets
UserIds == 1..MaxUsers
HotelIds == 1..MaxHotels
AddonIds == 1..MaxAddons

\* ids of the accounts and hotels that exist before the first request
SeedOwnerA == 1
SeedOwnerB == 2
SeedSuperadmin == 3
SeedSuspended == 4

\* header value when X-Hotel-Id is absent; MaxHotels + 1 is an id no hotel has
NoHeader == 0
HeaderValues == 0..(MaxHotels + 1)

Names == {"", "Alpha"}

Emails == {"a@x", "c@x", "new@x"}
Passwords == {"pw1", "pw2"}
Salts == {"s1", "s2"}
TokenIds == 1..MaxResetTokens
\* reset-token strings a client can present; MaxResetTokens + 1 is never issued
TokenValues == 1..(MaxResetTokens + 1)
Procs == {1, 2}

VARIABLES now, users, consents, resetTokens, hotels, addons, resp, hist, pc, cache

vars == <<now, users, consents, resetTokens, hotels, addons, resp, hist, pc, cache>>

\* ------------------------------------------------------------ small helpers
Max(S) == CHOOSE x \in S : \A y \in S : x >= y

\* an HTTPException raised before (Err) or after (ErrFor) the caller is known
Err(st, msg) ==
    [ok |-> FALSE, status |-> st, detail |-> msg, user_id |-> 0, is_superadmin |-> FALSE]
ErrFor(user_info, st, msg) ==
    [ok |-> FALSE, status |-> st, detail |-> msg,
     user_id |-> user_info.user_id, is_superadmin |-> user_info.is_superadmin]

\* ------------------------------------------------------------ session token
\* A bearer token is either not a JWT at all, or a JWT with a subject claim
\* (0: no sub), an exp claim (0: no exp) and a signature that is or is not
\* made with JWT_SECRET_KEY.
MalformedToken == [wellformed |-> FALSE, sub |-> 0, exp |-> 0, signed |-> FALSE]
JwtToken(sub, exp, signed) ==
    [wellformed |-> TRUE, sub |-> sub, exp |-> exp, signed |-> signed]
\* the tokens requests are made with: an unexpired signed token for every
\* account id, and an expired one
AccessTokens ==
    {JwtToken(u, MaxTime + 1, TRUE) : u \in UserIds} \cup {JwtToken(1, 1, TRUE)}

\* ------------------------------------------------ sessions and credentials
\* the Authorization header: absent, or a bearer token
NoCredentials == [present |-> FALSE, token |-> MalformedToken]
Bearer(tok) == [present |-> TRUE, token |-> tok]

\* tokens a client may hold: not a JWT; session tokens of SeedOwnerA that
\* expire after one hour, after the last hour, or never; tokens signed with
\* another key, unexpired and expired; a signed token without subject; a
\* session token of SeedOwnerB
SessionTokens ==
    {MalformedToken,
     JwtToken(SeedOwnerA, 2, TRUE), JwtToken(SeedOwnerA, MaxTime + 1, TRUE),
     JwtToken(SeedOwnerA, 0, TRUE),
     JwtToken(SeedOwnerA, MaxTime + 1, FALSE), JwtToken(SeedOwnerA, 1, FALSE),
     JwtToken(0, MaxTime + 1, TRUE),
     JwtToken(SeedOwnerB, MaxTime + 1, TRUE)}

Credentials == {NoCredentials} \cup {Bearer(tok) : tok \in SessionTokens}

\* is_token_expired that never finds an expiry
is_token_expired_NoExp(tok, t) == "None"

\* jwt.decode that checks the exp claim and not the signature
decode_access_token_Unverified(tok, t) ==
    IF tok.wellformed /\ (tok.exp = 0 \/ tok.exp > t)
    THEN [ok |-> TRUE, sub |-> tok.sub]
    ELSE [ok |-> FALSE, sub |-> 0]

\* jwt.decode with signature (and therefore exp) verification
decode_access_token(tok, t) ==
    IF tok.wellformed /\ tok.signed /\ (tok.exp = 0 \/ tok.exp > t)
    THEN [ok |-> TRUE, sub |-> tok.sub]
    ELSE [ok |-> FALSE, sub |-> 0]

\* jwt.decode without signature verification: TRUE / FALSE / "None"
is_token_expired(tok, t) ==
    IF ~tok.wellformed THEN "None"
    ELSE IF tok.exp # 0 THEN (IF t >= tok.exp THEN "True" ELSE "False")
    ELSE "None"

create_access_token(uid, t) ==
    [wellformed |-> TRUE, sub |-> uid, exp |-> t + 24, signed |-> TRUE]

\* ------------------------------------------------------------- user table
UserRepository_get_by_id(tbl, uid) ==
    IF uid \in DOMAIN tbl THEN [found |-> TRUE, id |-> uid, row |-> tbl[uid]]
    ELSE [found |-> FALSE, id |-> 0, row |-> [email |-> "", password_hash |-> <<>>,
                                              type |-> "", status |-> "",
                                              is_superadmin |-> FALSE]]

\* get_current_user_id that does not read the account's status
get_current_user_id_NoStatusCheck(tbl, tok, t) ==
    IF is_token_expired(tok, t) = "True"
    THEN Err(401, "Token has expired. Please login again.")
    ELSE IF ~decode_access_token(tok, t).ok
    THEN Err(401, "Invalid token")
    ELSE IF decode_access_token(tok, t).sub = 0
    THEN Err(401, "Invalid token payload")
    ELSE LET user == UserRepository_get_by_id(tbl, decode_access_token(tok, t).sub) IN
         IF ~user.found
         THEN Err(401, "User not found")
         ELSE [ok |-> TRUE, user_id |-> user.id, is_superadmin |-> FALSE]

\* the identity dependency of the routes that need no admin flag
get_current_user_id(tbl, tok, t) ==
    IF is_token_expired(tok, t) = "True"
    THEN Err(401, "Token has expired. Please login again.")
    ELSE IF ~decode_access_token(tok, t).ok
    THEN Err(401, "Invalid token")
    ELSE IF decode_access_token(tok, t).sub = 0
    THEN Err(401, "Invalid token payload")
    ELSE LET user == UserRepository_get_by_id(tbl, decode_access_token(tok, t).sub) IN
         IF ~user.found
         THEN Err(401, "User not found")
         ELSE IF user.row.status = "rejected"
         THEN Err(403, "Your account has been rejected. Please contact support.")
         ELSE IF user.row.status = "suspended"
         THEN Err(403, "Your account has been suspended. Please contact support.")
         ELSE [ok |-> TRUE, user_id |-> user.id, is_superadmin |-> FALSE]

\* ------------------------------------------------- identity resolution
get_current_user_with_admin_flag(tbl, tok, t) ==
    IF is_token_expired(tok, t) = "True"
    THEN Err(401, "Token has expired. Please login again.")
    ELSE IF ~decode_access_token(tok, t).ok
    THEN Err(401, "Invalid token")
    ELSE IF decode_access_token(tok, t).sub = 0
    THEN Err(401, "Invalid token payload")
    ELSE LET user == UserRepository_get_by_id(tbl, decode_access_token(tok, t).sub) IN
         IF ~user.found
         THEN Err(401, "User not found")
         ELSE IF user.row.status = "rejected"
         THEN Err(403, "Your account has been rejected. Please contact support.")
         ELSE IF user.row.status = "suspended"
         THEN Err(403, "Your account has been suspended. Please contact support.")
         ELSE [ok |-> TRUE, user_id |-> user.id,
               is_superadmin |-> user.row.is_superadmin]

\* require_hotel_admin that admits every authenticated caller
require_hotel_admin_AnyType(tbl, user_info) == user_info

\* user_info: what the dependency get_current_user_with_admin_flag yielded
require_hotel_admin(tbl, user_info) ==
    IF ~user_info.ok THEN user_info
    ELSE IF user_info.is_superadmin THEN user_info
    ELSE IF UserRepository_get_by_id(tbl, user_info.user_id).row.type # "hotel"
    THEN ErrFor(user_info, 403, "This endpoint is only available for hotel administrators")
    ELSE user_info

\* ------------------------------------------------------------ hotel table
\* A row handed from the repository to a route: its id and the columns that
\* the query selected ("all": SELECT *, "list": id, name, slug, location,
\* country).
NoHotel == [id |-> 0, cols |-> "none"]

BookingHotelRepository_get_by_id(tbl, hotel_id) ==
    IF hotel_id \in DOMAIN tbl THEN [id |-> hotel_id, cols |-> "all"] ELSE NoHotel

BookingHotelRepository_get_by_id_and_user_id(tbl, hotel_id, user_id) ==
    IF hotel_id \in DOMAIN tbl /\ tbl[hotel_id].user_id = user_id
    THEN [id |-> hotel_id, cols |-> "all"]
    ELSE NoHotel

\* ids of the user's hotels, ORDER BY created_at ASC
RECURSIVE SortByCreated(_, _)
SortByCreated(tbl, S) ==
    IF S = {} THEN <<>>
    ELSE LET first == CHOOSE h \in S : \A g \in S : tbl[h].created_at <= tbl[g].created_at
         IN <<first>> \o SortByCreated(tbl, S \ {first})

\* the user's hotels in the order of their ids instead of their creation
BookingHotelRepository_list_by_user_id_OrderById(tbl, user_id) ==
    LET S == {h \in DOMAIN tbl : tbl[h].user_id = user_id}
    IN [i \in 1..Cardinality(S) |->
           CHOOSE h \in S : Cardinality({g \in S : g < h}) = i - 1]

BookingHotelRepository_list_by_user_id(tbl, user_id) ==
    SortByCreated(tbl, {h \in DOMAIN tbl : tbl[h].user_id = user_id})

\* ------------------------------------------------------- tenant resolution
\* tenant resolution that tells a hotel owned by someone else (403) from an
\* id no hotel has (404)
get_current_hotel_Leaky(htbl, hotel_id, user_info) ==
    IF ~user_info.ok THEN user_info
    ELSE IF hotel_id # NoHeader
    THEN LET hotel == IF user_info.is_superadmin
                      THEN BookingHotelRepository_get_by_id(htbl, hotel_id)
                      ELSE BookingHotelRepository_get_by_id_and_user_id(
                               htbl, hotel_id, user_info.user_id)
         IN IF hotel = NoHotel
            THEN IF hotel_id \in DOMAIN htbl
                 THEN ErrFor(user_info, 403, "Hotel not found or access denied")
                 ELSE ErrFor(user_info, 404, "Hotel not found")
            ELSE [ok |-> TRUE, user_id |-> user_info.user_id,
                  is_superadmin |-> user_info.is_superadmin, hotel |-> hotel]
    ELSE LET hs == BookingHotelRepository_list_by_user_id(htbl, user_info.user_id) IN
         [ok |-> TRUE, user_id |-> user_info.user_id,
          is_superadmin |-> user_info.is_superadmin,
          hotel |-> IF hs # <<>> THEN [id |-> hs[1], cols |-> "list"] ELSE NoHotel]

\* tenant resolution without the ownership test: the header's hotel is
\* fetched by id alone for every caller
get_current_hotel_NoOwnerCheck(htbl, hotel_id, user_info) ==
    IF ~user_info.ok THEN user_info
    ELSE IF hotel_id # NoHeader
    THEN LET hotel == BookingHotelRepository_get_by_id(htbl, hotel_id)
         IN IF hotel = NoHotel
            THEN ErrFor(user_info, 403, "Hotel not found or access denied")
            ELSE [ok |-> TRUE, user_id |-> user_info.user_id,
                  is_superadmin |-> user_info.is_superadmin, hotel |-> hotel]
    ELSE LET hs == BookingHotelRepository_list_by_user_id(htbl, user_info.user_id) IN
         [ok |-> TRUE, user_id |-> user_info.user_id,
          is_superadmin |-> user_info.is_superadmin,
          hotel |-> IF hs # <<>> THEN [id |-> hs[1], cols |-> "list"] ELSE NoHotel]

\* user_info: what the dependencies get_current_user_with_admin_flag and
\* require_hotel_admin yielded (the identity, or the error one of them raised)
get_current_hotel(htbl, hotel_id, user_info) ==
    IF ~user_info.ok THEN user_info
    ELSE IF hotel_id # NoHeader
    THEN LET hotel == IF user_info.is_superadmin
                      THEN BookingHotelRepository_get_by_id(htbl, hotel_id)
                      ELSE BookingHotelRepository_get_by_id_and_user_id(
                               htbl, hotel_id, user_info.user_id)
         IN IF hotel = NoHotel
            THEN ErrFor(user_info, 403, "Hotel not found or access denied")
            ELSE [ok |-> TRUE, user_id |-> user_info.user_id,
                  is_superadmin |-> user_info.is_superadmin, hotel |-> hotel]
    ELSE LET hs == BookingHotelRepository_list_by_user_id(htbl, user_info.user_id) IN
         [ok |-> TRUE, user_id |-> user_info.user_id,
          is_superadmin |-> user_info.is_superadmin,
          hotel |-> IF hs # <<>> THEN [id |-> hs[1], cols |-> "list"] ELSE NoHotel]

\* r: what the dependency get_current_hotel yielded
require_current_hotel(r) ==
    IF ~r.ok THEN r
    ELSE IF r.hotel = NoHotel
    THEN ErrFor(r, 404, "No hotel found. Please complete property setup first.")
    ELSE r

\* FastAPI resolves a route's dependencies from the request's bearer token
\* and X-Hotel-Id header against the tables as they are
Depends_require_hotel_admin(tok) ==
    require_hotel_admin(users, get_current_user_with_admin_flag(users, tok, now))
Depends_get_current_hotel(tok, hdr) ==
    get_current_hotel(hotels, hdr, Depends_require_hotel_admin(tok))
Depends_require_current_hotel(tok, hdr) ==
    require_current_hotel(Depends_get_current_hotel(tok, hdr))

\* the value a route reads from the dict it was handed: a column the query
\* did not select is missing from the dict and .get() yields the default
ListColumns == {"name"}
HotelGet(tbl, hotel, col, default) ==
    IF hotel.cols = "all" \/ col \in ListColumns THEN tbl[hotel.id][col] ELSE default

\* partial_update whose WHERE clause matches every hotel of the row's owner
BookingHotelRepository_partial_update_AllOfOwner(tbl, hotel_id, updates, t) ==
    IF DOMAIN updates = {} \/ hotel_id \notin DOMAIN tbl THEN tbl
    ELSE [h \in DOMAIN tbl |->
             IF tbl[h].user_id = tbl[hotel_id].user_id
             THEN [c \in DOMAIN tbl[h] |->
                      IF c \in DOMAIN updates THEN updates[c]
                      ELSE IF c = "updated_at" THEN t
                      ELSE tbl[h][c]]
             ELSE tbl[h]]

\* UPDATE booking_hotels SET <updates>, updated_at = now() WHERE id =
\* hotel_id; the new table
BookingHotelRepository_partial_update(tbl, hotel_id, updates, t) ==
    IF DOMAIN updates = {} \/ hotel_id \notin DOMAIN tbl THEN tbl
    ELSE [tbl EXCEPT ![hotel_id] =
             [c \in DOMAIN tbl[hotel_id] |->
                 IF c \in DOMAIN updates THEN updates[c]
                 ELSE IF c = "updated_at" THEN t
                 ELSE tbl[hotel_id][c]]]

\* _slugify: lower case, characters other than letters, digits, blanks and
\* hyphens dropped, blanks to hyphens; "my-hotel" if nothing is left
slugify(text) ==
    CASE text = "" -> "my-hotel"
      [] text = "Alpha" -> "alpha"
      [] text = "a@x" -> "ax"
      [] text = "b@x" -> "bx"
      [] text = "c@x" -> "cx"
      [] text = "d@x" -> "dx"
      [] text = "new@x" -> "newx"
      [] text = "root@x" -> "rootx"
      [] OTHER -> text

\* the slug the upsert gives a hotel created without a name
DefaultSlug(user_id) == "hotel-" \o ToString(user_id)

\* booking_hotels.slug is unique: an INSERT of a slug already there fails
HotelsSlugUniqueViolation(tbl, slug) == \E h \in DOMAIN tbl : tbl[h].slug = slug

\* SELECT ... WHERE slug = $1: is there such a hotel
BookingHotelRepository_get_by_slug(tbl, slug) == \E h \in DOMAIN tbl : tbl[h].slug = slug

\* the onboarding columns the INSERT of create does not name: they take the
\* column default, which reads as empty
InsertDefaults ==
    [hero_image |-> "", branding_primary_color |-> "", branding_accent_color |-> "",
     branding_font_pairing |-> ""]

\* the contact, timezone and currency arguments of create
ContactColumns(contact_email, contact_phone, contact_address, timezone, currency) ==
    [contact_email |-> contact_email, contact_phone |-> contact_phone,
     contact_address |-> contact_address, timezone |-> timezone, currency |-> currency]

\* INSERT INTO booking_hotels ...: the table with the new row under new_id;
\* columns the INSERT does not name take the column default (updated_at 0:
\* the row has not been updated)
BookingHotelRepository_create(tbl, new_id, name, slug, user_id, contact) ==
    [h \in DOMAIN tbl \cup {new_id} |->
        IF h = new_id
        THEN [user_id |-> user_id,
              slug |-> slug,
              created_at |-> IF DOMAIN tbl = {} THEN 1
                             ELSE 1 + Max({tbl[g].created_at : g \in DOMAIN tbl}),
              name |-> name,
              show_addons_step |-> TRUE,
              updated_at |-> 0] @@ contact @@ InsertDefaults
        ELSE tbl[h]]

\* ------------------------------------------------------------ add-on table
BookingAddonRepository_list_by_hotel_id(tbl, hotel_id) ==
    {a \in DOMAIN tbl : tbl[a].hotel_id = hotel_id}

BookingAddonRepository_get_by_id(tbl, addon_id, hotel_id) ==
    addon_id \in DOMAIN tbl /\ tbl[addon_id].hotel_id = hotel_id

BookingAddonRepository_create(tbl, new_id, hotel_id, name) ==
    [a \in DOMAIN tbl \cup {new_id} |->
        IF a = new_id THEN [hotel_id |-> hotel_id, name |-> name] ELSE tbl[a]]

BookingAddonRepository_update(tbl, addon_id, hotel_id, updates) ==
    IF DOMAIN updates = {} THEN tbl
    ELSE [a \in DOMAIN tbl |->
            IF a = addon_id /\ tbl[a].hotel_id = hotel_id
            THEN [c \in DOMAIN tbl[a] |->
                     IF c \in DOMAIN updates THEN updates[c] ELSE tbl[a][c]]
            ELSE tbl[a]]

\* DELETE FROM booking_addons WHERE id = $1, without the hotel_id condition
BookingAddonRepository_delete_AnyHotel(tbl, addon_id, hotel_id) ==
    [a \in {b \in DOMAIN tbl : b # addon_id} |-> tbl[a]]

BookingAddonRepository_delete(tbl, addon_id, hotel_id) ==
    [a \in {b \in DOMAIN tbl : ~(b = addon_id /\ tbl[b].hotel_id = hotel_id)} |-> tbl[a]]

\* --------------------------------------------------- request parameters
\* A request body is the function from the fields sent with a non-null
\* value to their values; a field that is absent or null is not in its domain.
EmptyBody == [f \in {} |-> ""]

\* `data.field or default`: the field if it was sent and is not empty
OrDefault(data, field, default) ==
    IF field \in DOMAIN data /\ data[field] # "" THEN data[field] ELSE default

\* the updates dict a handler builds: non-null fields keyed by DB column
NonNull(data, fieldmap) ==
    [c \in {fieldmap[f] : f \in DOMAIN data} |->
        data[CHOOSE f \in DOMAIN data : fieldmap[f] = c]]

PropertySettingsUpdate == {EmptyBody} \cup {[property_name |-> n] : n \in Names}
PropertyFieldMap ==
    [property_name |-> "name", reservation_email |-> "contact_email",
     phone_number |-> "contact_phone", address |-> "contact_address",
     timezone |-> "timezone", default_currency |-> "currency"]

DesignSettingsUpdate == {EmptyBody} \cup {[hero_heading |-> n] : n \in Names \ {""}}
DESIGN_FIELD_MAP ==
    [hero_image |-> "hero_image", hero_heading |-> "name",
     primary_color |-> "branding_primary_color", accent_color |-> "branding_accent_color",
     font_pairing |-> "branding_font_pairing"]

AddonSettingsUpdate == {EmptyBody} \cup {[show_addons_step |-> b] : b \in BOOLEAN}
AddonSettingsFieldMap == [show_addons_step |-> "show_addons_step"]

AddonNames == {"spa", "tour"}
UpdateAddonRequest == {EmptyBody} \cup {[name |-> n] : n \in AddonNames}
AddonFieldMap == [name |-> "name"]

\* --------------------------------------------------- response bookkeeping
\* rows of the hotel table that a step created or changed
ChangedHotels(old, new) ==
    {h \in DOMAIN old \cup DOMAIN new :
        h \notin DOMAIN old \/ h \notin DOMAIN new \/ old[h] # new[h]}

\* add-on rows that a step created, changed or deleted
ChangedAddons(old, new) ==
    {a \in DOMAIN old \cup DOMAIN new :
        a \notin DOMAIN old \/ a \notin DOMAIN new \/ old[a] # new[a]}

NoBody == [ids |-> {}, name |-> "", flag |-> FALSE]

\* What the last admin request was and did: the authenticated caller (0 if
\* none), the X-Hotel-Id sent, the hotel row the handler read or wrote (0 if
\* none), the add-on id in the path, the rows it changed (for add-on rows
\* also the hotels they belong to) and the response.
AdminResp(op, r, hdr, addon, newHotels, newAddons, st, msg, body) ==
    [op |-> op,
     user |-> r.user_id,
     super |-> r.is_superadmin,
     hdr |-> hdr,
     hotel |-> IF r.ok /\ "hotel" \in DOMAIN r THEN r.hotel.id ELSE 0,
     addon |-> addon,
     hotelsChanged |-> ChangedHotels(hotels, newHotels),
     addonsChanged |-> ChangedAddons(addons, newAddons),
     addonHotelsChanged |->
         {addons[a].hotel_id : a \in ChangedAddons(addons, newAddons) \cap DOMAIN addons}
         \cup {newAddons[a].hotel_id :
                  a \in ChangedAddons(addons, newAddons) \cap DOMAIN newAddons},
     status |-> st, detail |-> msg, body |-> body]

AdminReject(op, r, hdr, addon) ==
    /\ resp' = AdminResp(op, r, hdr, addon, hotels, addons, r.status, r.detail, NoBody)
    /\ UNCHANGED <<hotels, addons>>

\* no request is being answered
Idle == resp.op = "none"

\* the response leaves the server; the worker takes the next request
send_response ==
    /\ ~Idle
    /\ resp' = [op |-> "none"]
    /\ UNCHANGED <<now, users, consents, resetTokens, hotels, addons, hist, pc, cache>>

AuthUnchanged == Idle /\ UNCHANGED <<now, users, consents, resetTokens, hist, pc, cache>>

\* ------------------------------------------------------ /admin handlers
\* DB column |-> name of the onboarding field in the API
SETUP_FIELD_MAP ==
    [name |-> "property_name", contact_email |-> "reservation_email",
     contact_phone |-> "phone_number", contact_address |-> "address",
     timezone |-> "timezone", currency |-> "currency", hero_image |-> "hero_image",
     branding_primary_color |-> "primary_color", branding_accent_color |-> "accent_color",
     branding_font_pairing |-> "font_pairing"]
\* DB defaults that count as "not set": the dict is empty
SETUP_DEFAULTS == [c \in {} |-> ""]
ALL_SETUP_FIELDS == {SETUP_FIELD_MAP[c] : c \in DOMAIN SETUP_FIELD_MAP}

SetupStatusResponse(setup_complete, missing_fields) ==
    [NoBody EXCEPT !.flag = setup_complete] @@ [missing_fields |-> missing_fields]

\* GET /admin/settings/setup-status
get_setup_status(tok, hdr) ==
    LET r == Depends_get_current_hotel(tok, hdr) IN
    /\ AuthUnchanged
    /\ IF ~r.ok THEN AdminReject("get_setup_status", r, hdr, 0)
       ELSE /\ UNCHANGED <<hotels, addons>>
            /\ resp' = AdminResp("get_setup_status", r, hdr, 0, hotels, addons, 200, "",
                   IF r.hotel = NoHotel
                   THEN SetupStatusResponse(FALSE, ALL_SETUP_FIELDS)
                   ELSE LET hotel_data == BookingHotelRepository_get_by_id(hotels, r.hotel.id)
                            missing == {SETUP_FIELD_MAP[db_col] : db_col \in
                                {c \in DOMAIN SETUP_FIELD_MAP :
                                    LET value == HotelGet(hotels, hotel_data, c, "") IN
                                    \/ value = ""
                                    \/ c \in DOMAIN SETUP_DEFAULTS
                                       /\ value = SETUP_DEFAULTS[c]}}
                        IN SetupStatusResponse(missing = {}, missing))

\* GET /admin/settings/property
get_property_settings(tok, hdr) ==
    LET r == Depends_get_current_hotel(tok, hdr) IN
    /\ AuthUnchanged
    /\ IF ~r.ok THEN AdminReject("get_property_settings", r, hdr, 0)
       ELSE /\ UNCHANGED <<hotels, addons>>
            /\ resp' = AdminResp("get_property_settings", r, hdr, 0, hotels, addons, 200, "",
                   IF r.hotel = NoHotel THEN NoBody
                   ELSE LET full_hotel == BookingHotelRepository_get_by_id(hotels, r.hotel.id) IN
                        [NoBody EXCEPT !.name = HotelGet(hotels, full_hotel, "name", "")])

\* PATCH /admin/settings/property (upsert)
update_property_settings(tok, hdr, data, new_id) ==
    LET r == Depends_get_current_hotel(tok, hdr) IN
    /\ AuthUnchanged
    /\ IF ~r.ok THEN AdminReject("update_property_settings", r, hdr, 0)
       ELSE IF r.hotel # NoHotel
       THEN LET updates == NonNull(data, PropertyFieldMap)
                newHotels == BookingHotelRepository_partial_update(hotels, r.hotel.id, updates, now)
            IN /\ hotels' = newHotels
               /\ UNCHANGED addons
               /\ resp' = AdminResp("update_property_settings", r, hdr, 0, newHotels, addons,
                              200, "", [NoBody EXCEPT !.name = newHotels[r.hotel.id].name])
                          @@ [data |-> data]
       ELSE LET name == IF "property_name" \in DOMAIN data THEN data.property_name ELSE ""
                slug == IF name # "" THEN slugify(name) ELSE DefaultSlug(r.user_id)
                newHotels == BookingHotelRepository_create(hotels, new_id, name, slug,
                                 r.user_id,
                                 ContactColumns(OrDefault(data, "reservation_email", ""),
                                                OrDefault(data, "phone_number", ""),
                                                OrDefault(data, "address", ""),
                                                OrDefault(data, "timezone", "UTC"),
                                                OrDefault(data, "default_currency", "EUR")))
            IN /\ new_id \in HotelIds \ DOMAIN hotels
               /\ UNCHANGED addons
               /\ IF HotelsSlugUniqueViolation(hotels, slug)
                  THEN /\ UNCHANGED hotels
                       /\ resp' = AdminResp("update_property_settings", r, hdr, 0, hotels,
                                      addons, 500, "Failed to update property settings",
                                      NoBody)
                                  @@ [data |-> data]
                  ELSE /\ hotels' = newHotels
                       /\ resp' = AdminResp("update_property_settings", r, hdr, 0,
                                      newHotels, addons, 200, "",
                                      [NoBody EXCEPT !.name = name])
                                  @@ [data |-> data]

\* GET /admin/settings/design
get_design_settings(tok, hdr) ==
    LET r == Depends_get_current_hotel(tok, hdr) IN
    /\ AuthUnchanged
    /\ IF ~r.ok THEN AdminReject("get_design_settings", r, hdr, 0)
       ELSE /\ UNCHANGED <<hotels, addons>>
            /\ resp' = AdminResp("get_design_settings", r, hdr, 0, hotels, addons, 200, "",
                   IF r.hotel = NoHotel THEN NoBody
                   ELSE LET hotel_data == BookingHotelRepository_get_by_id(hotels, r.hotel.id) IN
                        [NoBody EXCEPT !.name = HotelGet(hotels, hotel_data, "name", "")])

\* PATCH /admin/settings/design
update_design_settings(tok, hdr, data) ==
    LET r == Depends_require_current_hotel(tok, hdr) IN
    /\ AuthUnchanged
    /\ IF ~r.ok THEN AdminReject("update_design_settings", r, hdr, 0)
       ELSE LET updates == NonNull(data, DESIGN_FIELD_MAP)
                newHotels == BookingHotelRepository_partial_update(hotels, r.hotel.id, updates, now)
            IN /\ hotels' = newHotels
               /\ UNCHANGED addons
               /\ resp' = AdminResp("update_design_settings", r, hdr, 0, newHotels, addons,
                              200, "", [NoBody EXCEPT !.name = newHotels[r.hotel.id].name])
                          @@ [data |-> data]

\* GET /admin/addons
list_addons(tok, hdr) ==
    LET r == Depends_require_current_hotel(tok, hdr) IN
    /\ AuthUnchanged
    /\ IF ~r.ok THEN AdminReject("list_addons", r, hdr, 0)
       ELSE /\ UNCHANGED <<hotels, addons>>
            /\ resp' = AdminResp("list_addons", r, hdr, 0, hotels, addons, 200, "",
                   [NoBody EXCEPT
                      !.ids = BookingAddonRepository_list_by_hotel_id(addons, r.hotel.id)])

\* POST /admin/addons
create_addon(tok, hdr, name, new_id) ==
    LET r == Depends_require_current_hotel(tok, hdr) IN
    /\ AuthUnchanged
    /\ IF ~r.ok THEN AdminReject("create_addon", r, hdr, 0)
       ELSE LET newAddons == BookingAddonRepository_create(addons, new_id, r.hotel.id, name)
            IN /\ new_id \in AddonIds \ DOMAIN addons
               /\ addons' = newAddons
               /\ UNCHANGED hotels
               /\ resp' = AdminResp("create_addon", r, hdr, new_id, hotels, newAddons, 201, "",
                              [NoBody EXCEPT !.ids = {new_id}, !.name = name])

\* PATCH /admin/addons/{addon_id}
update_addon(tok, hdr, addon_id, data) ==
    LET r == Depends_require_current_hotel(tok, hdr) IN
    /\ AuthUnchanged
    /\ IF ~r.ok THEN AdminReject("update_addon", r, hdr, addon_id)
       ELSE IF ~BookingAddonRepository_get_by_id(addons, addon_id, r.hotel.id)
       THEN /\ UNCHANGED <<hotels, addons>>
            /\ resp' = AdminResp("update_addon", r, hdr, addon_id, hotels, addons,
                                 404, "Addon not found", NoBody)
       ELSE LET updates == NonNull(data, AddonFieldMap)
                newAddons == BookingAddonRepository_update(addons, addon_id, r.hotel.id, updates)
            IN /\ addons' = newAddons
               /\ UNCHANGED hotels
               /\ resp' = AdminResp("update_addon", r, hdr, addon_id, hotels, newAddons, 200, "",
                              [NoBody EXCEPT !.ids = {addon_id},
                                             !.name = newAddons[addon_id].name])

\* DELETE /admin/addons/{addon_id}
delete_addon(tok, hdr, addon_id) ==
    LET r == Depends_require_current_hotel(tok, hdr) IN
    /\ AuthUnchanged
    /\ IF ~r.ok THEN AdminReject("delete_addon", r, hdr, addon_id)
       ELSE LET newAddons == BookingAddonRepository_delete(addons, addon_id, r.hotel.id)
                deleted == newAddons # addons
            IN /\ addons' = newAddons
               /\ UNCHANGED hotels
               /\ resp' = IF deleted
                          THEN AdminResp("delete_addon", r, hdr, addon_id, hotels, newAddons,
                                         204, "", NoBody)
                          ELSE AdminResp("delete_addon", r, hdr, addon_id, hotels, newAddons,
                                         404, "Addon not found", NoBody)

\* GET /admin/settings/addons
get_addon_settings(tok, hdr) ==
    LET r == Depends_require_current_hotel(tok, hdr) IN
    /\ AuthUnchanged
    /\ IF ~r.ok THEN AdminReject("get_addon_settings", r, hdr, 0)
       ELSE /\ UNCHANGED <<hotels, addons>>
            /\ resp' = AdminResp("get_addon_settings", r, hdr, 0, hotels, addons, 200, "",
                   [NoBody EXCEPT !.flag = HotelGet(hotels, r.hotel, "show_addons_step", TRUE)])

\* PATCH /admin/settings/addons
update_addon_settings(tok, hdr, data) ==
    LET r == Depends_require_current_hotel(tok, hdr) IN
    /\ AuthUnchanged
    /\ IF ~r.ok THEN AdminReject("update_addon_settings", r, hdr, 0)
       ELSE LET updates == NonNull(data, AddonSettingsFieldMap)
                newHotels == BookingHotelRepository_partial_update(hotels, r.hotel.id, updates, now)
            IN /\ hotels' = newHotels
               /\ UNCHANGED addons
               /\ resp' = AdminResp("update_addon_settings", r, hdr, 0, newHotels, addons,
                              200, "",
                              [NoBody EXCEPT !.flag =
                                  IF DOMAIN updates # {}
                                  THEN newHotels[r.hotel.id].show_addons_step
                                  ELSE HotelGet(hotels, r.hotel, "show_addons_step", TRUE)])

\* ------------------------------------------------------------- passwords
\* bcrypt: the hash carries its salt and the digest of salt and password
hash_password(password, salt) == [salt |-> salt, digest |-> <<salt, password>>]
verify_password(password, hashed) == hashed.digest = <<hashed.salt, password>>

\* ------------------------------------------------------------ users table
UserRepository_get_by_email(tbl, email) ==
    IF \E u \in DOMAIN tbl : tbl[u].email = email
    THEN UserRepository_get_by_id(tbl, CHOOSE u \in DOMAIN tbl : tbl[u].email = email)
    ELSE UserRepository_get_by_id(tbl, 0)

UserRepository_exists_by_email(tbl, email) ==
    \E u \in DOMAIN tbl : tbl[u].email = email

\* INSERT INTO users (..., type, status, ...) VALUES (..., 'hotel', 'pending', ...)
UserRepository_create(tbl, new_id, email, password_hash) ==
    [u \in DOMAIN tbl \cup {new_id} |->
        IF u = new_id
        THEN [email |-> email, password_hash |-> password_hash, type |-> "hotel",
              status |-> "pending", is_superadmin |-> FALSE]
        ELSE tbl[u]]

\* the store rejects an INSERT whose email another row already holds
UsersEmailUniqueViolation(tbl, email) ==
    \E u \in DOMAIN tbl : tbl[u].email = email

UserRepository_update_password(tbl, user_id, password_hash) ==
    IF user_id \in DOMAIN tbl
    THEN [tbl EXCEPT ![user_id].password_hash = password_hash]
    ELSE tbl

\* a consent store that keeps one row per user and overwrites it
ConsentRepository_record_Upsert(tbl, user_id, consent_type, consent_given) ==
    Append(SelectSeq(tbl, LAMBDA r : r.user_id # user_id),
           [user_id |-> user_id, consent_type |-> consent_type,
            consent_given |-> consent_given])

ConsentRepository_record(tbl, user_id, consent_type, consent_given) ==
    Append(tbl, [user_id |-> user_id, consent_type |-> consent_type,
                 consent_given |-> consent_given])

\* --------------------------------------------------- password reset ledger
ResetTokenTTL == 1

\* INSERT INTO password_reset_tokens (user_id, token, expires_at)
create_password_reset_token(tbl, new_tok, user_id, t, expires_in_hours) ==
    [k \in DOMAIN tbl \cup {new_tok} |->
        IF k = new_tok
        THEN [user_id |-> user_id, expires_at |-> t + expires_in_hours, used |-> FALSE]
        ELSE tbl[k]]

\* validation that does not look at the used flag
validate_password_reset_token_IgnoreUsed(tbl, utbl, token, t) ==
    IF token \notin DOMAIN tbl \/ tbl[token].user_id \notin DOMAIN utbl THEN 0
    ELSE IF t > tbl[token].expires_at THEN 0
    ELSE IF utbl[tbl[token].user_id].status = "suspended" THEN 0
    ELSE tbl[token].user_id

\* the user id the token redeems for, 0 if it is not redeemable
validate_password_reset_token(tbl, utbl, token, t) ==
    IF token \notin DOMAIN tbl \/ tbl[token].user_id \notin DOMAIN utbl THEN 0
    ELSE IF tbl[token].used THEN 0
    ELSE IF t > tbl[token].expires_at THEN 0
    ELSE IF utbl[tbl[token].user_id].status = "suspended" THEN 0
    ELSE tbl[token].user_id

\* UPDATE password_reset_tokens SET used = true WHERE token = $1 AND used = false
mark_password_reset_token_as_used(tbl, token) ==
    [k \in DOMAIN tbl |->
        IF k = token /\ ~tbl[k].used THEN [tbl[k] EXCEPT !.used = TRUE] ELSE tbl[k]]

\* every unused token of the user is marked used
PasswordResetRepository_invalidate_all_for_user(tbl, user_id) ==
    [k \in DOMAIN tbl |->
        IF tbl[k].user_id = user_id /\ ~tbl[k].used
        THEN [tbl[k] EXCEPT !.used = TRUE] ELSE tbl[k]]

\* ------------------------------------------------------- /auth handlers
DEBUG == TRUE
GenericForgotMessage ==
    "If an account with that email exists, a password reset link has been sent."

AdminUnchanged == Idle /\ UNCHANGED <<hotels, addons, cache>>

\* What the last /auth request was and did.  token: the reset token sent or
\* returned (0: none); issuedSub: subject of the session token issued (0:
\* none); wasConsumed: the reset token sent had already reset a password;
\* pwChanged: a password hash changed; usersCreated, tokensCreated: rows the
\* request inserted; tokensUsed: reset tokens the request marked used.
AuthResp(op, st, msg, email, password, token, issuedSub, newUsers, newTokens) ==
    [op |-> op, status |-> st, detail |-> msg, email |-> email, password |-> password,
     token |-> token, issuedSub |-> issuedSub,
     wasConsumed |-> token \in hist.consumed,
     pwChanged |-> \E u \in DOMAIN users : newUsers[u].password_hash # users[u].password_hash,
     usersCreated |-> DOMAIN newUsers \ DOMAIN users,
     tokensCreated |-> DOMAIN newTokens \ DOMAIN resetTokens,
     tokensUsed |-> {k \in DOMAIN resetTokens : ~resetTokens[k].used /\ newTokens[k].used}]

\* what a register response adds to AuthResp: the consent flags sent and
\* the number of consent records the request wrote
RegisterInfo(terms_accepted, privacy_accepted, marketing_consent, newConsents) ==
    [terms_accepted |-> terms_accepted, privacy_accepted |-> privacy_accepted,
     marketing_consent |-> marketing_consent,
     consentsWritten |-> Len(newConsents) - Len(consents)]

\* register that does not look at privacy_accepted
register_NoPrivacyCheck(email, password, terms_accepted, privacy_accepted, marketing_consent, salt, new_id) ==
    /\ AdminUnchanged
    /\ UNCHANGED <<now, resetTokens, hist, pc>>
    /\ IF ~terms_accepted
       THEN /\ UNCHANGED <<users, consents>>
            /\ resp' = AuthResp("register", 400,
                   "You must accept the Terms of Service to register",
                   email, password, 0, 0, users, resetTokens)
                   @@ RegisterInfo(terms_accepted, privacy_accepted, marketing_consent, consents)
       ELSE IF UserRepository_exists_by_email(users, email)
       THEN /\ UNCHANGED <<users, consents>>
            /\ resp' = AuthResp("register", 400, "Email already registered",
                   email, password, 0, 0, users, resetTokens)
                   @@ RegisterInfo(terms_accepted, privacy_accepted, marketing_consent, consents)
       ELSE LET newUsers == UserRepository_create(users, new_id, email,
                                                  hash_password(password, salt))
                c1 == ConsentRepository_record(consents, new_id, "terms", TRUE)
                c2 == ConsentRepository_record(c1, new_id, "privacy", TRUE)
                c3 == IF marketing_consent
                      THEN ConsentRepository_record(c2, new_id, "marketing", TRUE)
                      ELSE c2
            IN /\ new_id \in UserIds \ DOMAIN users
               /\ users' = newUsers
               /\ consents' = c3
               /\ resp' = AuthResp("register", 201, "User registered successfully",
                              email, password, 0, create_access_token(new_id, now).sub,
                              newUsers, resetTokens)
                              @@ RegisterInfo(terms_accepted, privacy_accepted, marketing_consent, c3)

\* ---------------------------------------------------- POST /auth/validate-token
TokenValidationResponse(valid, expired, user_id, email, type) ==
    [valid |-> valid, expired |-> expired, user_id |-> user_id, email |-> email,
     type |-> type]

\* the body validate-token answers with
validate_token_body(tbl, credentials, t) ==
    IF ~credentials.present
    THEN TokenValidationResponse(FALSE, FALSE, 0, "", "")
    ELSE LET token == credentials.token
             payload == decode_access_token(token, t)
         IN IF ~payload.ok
            THEN TokenValidationResponse(FALSE, is_token_expired(token, t) = "True", 0, "", "")
            ELSE IF is_token_expired(token, t) = "True"
            THEN TokenValidationResponse(FALSE, TRUE, 0, "", "")
            ELSE IF payload.sub = 0
            THEN TokenValidationResponse(FALSE, FALSE, 0, "", "")
            ELSE LET user == UserRepository_get_by_id(tbl, payload.sub) IN
                 IF ~user.found
                 THEN TokenValidationResponse(FALSE, FALSE, 0, "", "")
                 ELSE TokenValidationResponse(TRUE, FALSE, user.id, user.row.email,
                                              user.row.type)

validate_token(credentials) ==
    /\ AdminUnchanged
    /\ UNCHANGED <<now, users, consents, resetTokens, hist, pc>>
    /\ resp' = [op |-> "validate_token", status |-> 200, credentials |-> credentials,
                body |-> validate_token_body(users, credentials, now)]

\* ------------------------------------------------- session-protected routes
AccountStatuses == {"pending", "verified", "rejected", "suspended"}

\* What the last session-protected request was and did: the token sent, the
\* caller the dependency resolved (0 if none), the stored status of the
\* token's account when the request arrived ("none": no such account), the
\* accounts whose row changed, the response.
SessionResp(op, tok, r, st, msg, newUsers, body) ==
    [op |-> op, token |-> tok, user |-> r.user_id,
     account |-> IF tok.sub \in DOMAIN users THEN users[tok.sub].status ELSE "none",
     usersChanged |-> {u \in DOMAIN users : newUsers[u] # users[u]},
     status |-> st, detail |-> msg, body |-> body]

\* GET /admin/hotels
list_hotels(tok) ==
    LET r == Depends_require_hotel_admin(tok) IN
    /\ AdminUnchanged
    /\ UNCHANGED <<now, users, consents, resetTokens, hist, pc>>
    /\ resp' = IF ~r.ok
               THEN SessionResp("list_hotels", tok, r, r.status, r.detail, users, <<>>)
               ELSE SessionResp("list_hotels", tok, r, 200, "", users,
                                BookingHotelRepository_list_by_user_id(hotels, r.user_id))

\* POST /auth/change-password
change_password(tok, current_password, new_password, salt) ==
    LET r == get_current_user_id(users, tok, now) IN
    /\ AdminUnchanged
    /\ UNCHANGED <<now, consents, resetTokens, hist, pc>>
    /\ IF ~r.ok
       THEN /\ resp' = SessionResp("change_password", tok, r, r.status, r.detail, users, <<>>)
            /\ UNCHANGED users
       ELSE LET user == UserRepository_get_by_id(users, r.user_id) IN
            IF ~user.found
            THEN /\ resp' = SessionResp("change_password", tok, r, 404, "User not found",
                                        users, <<>>)
                 /\ UNCHANGED users
            ELSE IF ~verify_password(current_password, user.row.password_hash)
            THEN /\ resp' = SessionResp("change_password", tok, r, 400,
                                        "Current password is incorrect", users, <<>>)
                 /\ UNCHANGED users
            ELSE LET newUsers == UserRepository_update_password(
                                     users, r.user_id, hash_password(new_password, salt))
                 IN /\ users' = newUsers
                    /\ resp' = SessionResp("change_password", tok, r, 200,
                                           "Password changed successfully", newUsers, <<>>)

\* ------------------------------------------------ POST /auth/change-email
\* UPDATE users SET email = $2 WHERE id = $1
UserRepository_update_email(tbl, user_id, new_email) ==
    IF user_id \in DOMAIN tbl
    THEN [tbl EXCEPT ![user_id].email = new_email]
    ELSE tbl

\* the request fields a change-email response is recorded with
ChangeEmailInfo(password, new_email) == [password |-> password, new_email |-> new_email]

\* change_email that looks for the new email among the accounts before it
\* compares it with the caller's own
change_email_TakenFirst(tok, password, new_email) ==
    LET r == get_current_user_id(users, tok, now)
        user == UserRepository_get_by_id(users, r.user_id)
        info == ChangeEmailInfo(password, new_email)
    IN
    /\ AdminUnchanged
    /\ UNCHANGED <<now, consents, resetTokens, hist, pc>>
    /\ IF ~r.ok
       THEN /\ UNCHANGED users
            /\ resp' = SessionResp("change_email", tok, r, r.status, r.detail, users, "")
                       @@ info
       ELSE IF ~user.found
       THEN /\ UNCHANGED users
            /\ resp' = SessionResp("change_email", tok, r, 404, "User not found", users, "")
                       @@ info
       ELSE IF ~verify_password(password, user.row.password_hash)
       THEN /\ UNCHANGED users
            /\ resp' = SessionResp("change_email", tok, r, 400, "Password is incorrect",
                                   users, "") @@ info
       ELSE IF UserRepository_exists_by_email(users, new_email)
       THEN /\ UNCHANGED users
            /\ resp' = SessionResp("change_email", tok, r, 409, "Email is already in use",
                                   users, "") @@ info
       ELSE IF user.row.email = new_email
       THEN /\ UNCHANGED users
            /\ resp' = SessionResp("change_email", tok, r, 400,
                                   "New email is the same as the current email", users, "")
                       @@ info
       ELSE LET newUsers == UserRepository_update_email(users, r.user_id, new_email) IN
            /\ users' = newUsers
            /\ resp' = SessionResp("change_email", tok, r, 200, "Email updated successfully",
                                   newUsers, newUsers[r.user_id].email) @@ info

change_email(tok, password, new_email) ==
    LET r == get_current_user_id(users, tok, now)
        user == UserRepository_get_by_id(users, r.user_id)
        info == ChangeEmailInfo(password, new_email)
    IN
    /\ AdminUnchanged
    /\ UNCHANGED <<now, consents, resetTokens, hist, pc>>
    /\ IF ~r.ok
       THEN /\ UNCHANGED users
            /\ resp' = SessionResp("change_email", tok, r, r.status, r.detail, users, "")
                       @@ info
       ELSE IF ~user.found
       THEN /\ UNCHANGED users
            /\ resp' = SessionResp("change_email", tok, r, 404, "User not found", users, "")
                       @@ info
       ELSE IF ~verify_password(password, user.row.password_hash)
       THEN /\ UNCHANGED users
            /\ resp' = SessionResp("change_email", tok, r, 400, "Password is incorrect",
                                   users, "") @@ info
       ELSE IF user.row.email = new_email
       THEN /\ UNCHANGED users
            /\ resp' = SessionResp("change_email", tok, r, 400,
                                   "New email is the same as the current email", users, "")
                       @@ info
       ELSE IF UserRepository_exists_by_email(users, new_email)
       THEN /\ UNCHANGED users
            /\ resp' = SessionResp("change_email", tok, r, 409, "Email is already in use",
                                   users, "") @@ info
       ELSE LET newUsers == UserRepository_update_email(users, r.user_id, new_email) IN
            /\ users' = newUsers
            /\ resp' = SessionResp("change_email", tok, r, 200, "Email updated successfully",
                                   newUsers, newUsers[r.user_id].email) @@ info

\* the status column of an account is changed outside this service
account_status_changed(u, s) ==
    /\ AdminUnchanged
    /\ u \in DOMAIN users
    /\ users[u].status # s
    /\ users' = [users EXCEPT ![u].status = s]
    /\ UNCHANGED <<now, consents, resetTokens, resp, hist, pc>>

\* an account row is deleted outside this service
account_deleted(u) ==
    /\ AdminUnchanged
    /\ u \in DOMAIN users
    /\ users' = [v \in DOMAIN users \ {u} |-> users[v]]
    /\ UNCHANGED <<now, consents, resetTokens, resp, hist, pc>>

\* POST /auth/register
register(email, password, terms_accepted, privacy_accepted, marketing_consent, salt, new_id) ==
    /\ AdminUnchanged
    /\ UNCHANGED <<now, resetTokens, hist, pc>>
    /\ IF ~terms_accepted
       THEN /\ UNCHANGED <<users, consents>>
            /\ resp' = AuthResp("register", 400,
                   "You must accept the Terms of Service to register",
                   email, password, 0, 0, users, resetTokens)
                   @@ RegisterInfo(terms_accepted, privacy_accepted, marketing_consent, consents)
       ELSE IF ~privacy_accepted
       THEN /\ UNCHANGED <<users, consents>>
            /\ resp' = AuthResp("register", 400,
                   "You must accept the Privacy Policy to register",
                   email, password, 0, 0, users, resetTokens)
                   @@ RegisterInfo(terms_accepted, privacy_accepted, marketing_consent, consents)
       ELSE IF UserRepository_exists_by_email(users, email)
       THEN /\ UNCHANGED <<users, consents>>
            /\ resp' = AuthResp("register", 400, "Email already registered",
                   email, password, 0, 0, users, resetTokens)
                   @@ RegisterInfo(terms_accepted, privacy_accepted, marketing_consent, consents)
       ELSE LET newUsers == UserRepository_create(users, new_id, email,
                                                  hash_password(password, salt))
                c1 == ConsentRepository_record(consents, new_id, "terms", TRUE)
                c2 == ConsentRepository_record(c1, new_id, "privacy", TRUE)
                c3 == IF marketing_consent
                      THEN ConsentRepository_record(c2, new_id, "marketing", TRUE)
                      ELSE c2
            IN /\ new_id \in UserIds \ DOMAIN users
               /\ users' = newUsers
               /\ consents' = c3
               /\ resp' = AuthResp("register", 201, "User registered successfully",
                              email, password, 0, create_access_token(new_id, now).sub,
                              newUsers, resetTokens)
                              @@ RegisterInfo(terms_accepted, privacy_accepted, marketing_consent, c3)

\* login that does not look at the account status
login_NoSuspendedCheck(email, password) ==
    LET user == UserRepository_get_by_email(users, email) IN
    /\ AdminUnchanged
    /\ UNCHANGED <<now, users, consents, resetTokens, hist, pc>>
    /\ resp' =
         IF ~user.found
         THEN AuthResp("login", 401, "Invalid email or password", email, password, 0, 0,
                       users, resetTokens)
         ELSE IF ~verify_password(password, user.row.password_hash)
         THEN AuthResp("login", 401, "Invalid email or password", email, password, 0, 0,
                       users, resetTokens)
         ELSE AuthResp("login", 200, "Login successful", email, password, 0,
                       create_access_token(user.id, now).sub, users, resetTokens)

\* POST /auth/login
login(email, password) ==
    LET user == UserRepository_get_by_email(users, email) IN
    /\ AdminUnchanged
    /\ UNCHANGED <<now, users, consents, resetTokens, hist, pc>>
    /\ resp' =
         IF ~user.found
         THEN AuthResp("login", 401, "Invalid email or password", email, password, 0, 0,
                       users, resetTokens)
         ELSE IF ~verify_password(password, user.row.password_hash)
         THEN AuthResp("login", 401, "Invalid email or password", email, password, 0, 0,
                       users, resetTokens)
         ELSE IF user.row.status = "suspended"
         THEN AuthResp("login", 403, "Account is suspended", email, password, 0, 0,
                       users, resetTokens)
         ELSE AuthResp("login", 200, "Login successful", email, password, 0,
                       create_access_token(user.id, now).sub, users, resetTokens)

\* forgot-password that issues a token to every account it finds
forgot_password_IgnoreSuspended(email, fail, new_tok) ==
    LET user == UserRepository_get_by_email(users, email) IN
    /\ AdminUnchanged
    /\ UNCHANGED <<now, users, consents, pc>>
    /\ IF fail = "get_by_email"
       THEN /\ UNCHANGED <<resetTokens, hist>>
            /\ resp' = AuthResp("forgot_password", 200, GenericForgotMessage, email, "", 0, 0,
                                users, resetTokens)
       ELSE IF user.found
       THEN IF fail = "create_password_reset_token"
            THEN /\ UNCHANGED <<resetTokens, hist>>
                 /\ resp' = AuthResp("forgot_password", 200, GenericForgotMessage, email,
                                     "", 0, 0, users, resetTokens)
            ELSE LET newTokens == create_password_reset_token(
                                      resetTokens, new_tok, user.id, now, ResetTokenTTL)
                 IN /\ new_tok \in TokenIds \ DOMAIN resetTokens
                    /\ resetTokens' = newTokens
                    /\ hist' = [hist EXCEPT !.superseded = @ \cup
                                  {k \in DOMAIN resetTokens :
                                      resetTokens[k].user_id = user.id /\ ~resetTokens[k].used}]
                    /\ resp' = AuthResp("forgot_password", 200, GenericForgotMessage, email,
                                        "", IF DEBUG THEN new_tok ELSE 0, 0, users, newTokens)
       ELSE /\ UNCHANGED <<resetTokens, hist>>
            /\ resp' = AuthResp("forgot_password", 200, GenericForgotMessage, email, "", 0, 0,
                                users, resetTokens)

\* POST /auth/forgot-password.  fail: the database call that raises, if any
forgot_password(email, fail, new_tok) ==
    LET user == UserRepository_get_by_email(users, email) IN
    /\ AdminUnchanged
    /\ UNCHANGED <<now, users, consents, pc>>
    /\ IF fail = "get_by_email"
       THEN /\ UNCHANGED <<resetTokens, hist>>
            /\ resp' = AuthResp("forgot_password", 200, GenericForgotMessage, email, "", 0, 0,
                                users, resetTokens)
       ELSE IF user.found /\ user.row.status # "suspended"
       THEN IF fail = "create_password_reset_token"
            THEN /\ UNCHANGED <<resetTokens, hist>>
                 /\ resp' = AuthResp("forgot_password", 200, GenericForgotMessage, email,
                                     "", 0, 0, users, resetTokens)
            ELSE LET newTokens == create_password_reset_token(
                                      resetTokens, new_tok, user.id, now, ResetTokenTTL)
                 IN /\ new_tok \in TokenIds \ DOMAIN resetTokens
                    /\ resetTokens' = newTokens
                    /\ hist' = [hist EXCEPT !.superseded = @ \cup
                                  {k \in DOMAIN resetTokens :
                                      resetTokens[k].user_id = user.id /\ ~resetTokens[k].used}]
                    /\ resp' = AuthResp("forgot_password", 200, GenericForgotMessage, email,
                                        "", IF DEBUG THEN new_tok ELSE 0, 0, users, newTokens)
       ELSE /\ UNCHANGED <<resetTokens, hist>>
            /\ resp' = AuthResp("forgot_password", 200, GenericForgotMessage, email, "", 0, 0,
                                users, resetTokens)

\* reset-password that marks the presented token used and stops there
reset_password_NoInvalidate(token, new_password, salt) ==
    LET user_id == validate_password_reset_token(resetTokens, users, token, now) IN
    /\ AdminUnchanged
    /\ UNCHANGED <<now, consents, pc>>
    /\ IF user_id = 0
       THEN /\ UNCHANGED <<users, resetTokens, hist>>
            /\ resp' = AuthResp("reset_password", 400, "Invalid or expired reset token",
                                "", new_password, token, 0, users, resetTokens)
       ELSE LET newUsers == UserRepository_update_password(
                                users, user_id, hash_password(new_password, salt))
                newTokens == mark_password_reset_token_as_used(resetTokens, token)
            IN /\ users' = newUsers
               /\ resetTokens' = newTokens
               /\ hist' = [hist EXCEPT
                             !.consumed = @ \cup {token},
                             !.beforeReset = @ \cup
                                 {k \in DOMAIN resetTokens : resetTokens[k].user_id = user_id}]
               /\ resp' = AuthResp("reset_password", 200,
                              "Password has been reset successfully",
                              "", new_password, token, 0, newUsers, newTokens)

\* POST /auth/reset-password
reset_password(token, new_password, salt) ==
    LET user_id == validate_password_reset_token(resetTokens, users, token, now) IN
    /\ AdminUnchanged
    /\ UNCHANGED <<now, consents, pc>>
    /\ IF user_id = 0
       THEN /\ UNCHANGED <<users, resetTokens, hist>>
            /\ resp' = AuthResp("reset_password", 400, "Invalid or expired reset token",
                                "", new_password, token, 0, users, resetTokens)
       ELSE LET newUsers == UserRepository_update_password(
                                users, user_id, hash_password(new_password, salt))
                marked == mark_password_reset_token_as_used(resetTokens, token)
                newTokens == PasswordResetRepository_invalidate_all_for_user(marked, user_id)
            IN /\ users' = newUsers
               /\ resetTokens' = newTokens
               /\ hist' = [hist EXCEPT
                             !.consumed = @ \cup {token},
                             !.beforeReset = @ \cup
                                 {k \in DOMAIN resetTokens : resetTokens[k].user_id = user_id}]
               /\ resp' = AuthResp("reset_password", 200,
                              "Password has been reset successfully",
                              "", new_password, token, 0, newUsers, newTokens)

\* ------------------------------------- /auth handlers when the store raises
\* str(e) of the exception a database call raises
StoreErrors ==
    {"connection is closed",
     "duplicate key value violates unique constraint users_email_key"}

\* the detail the `except Exception as e` clause of each handler builds
RegisterFailureDetail(e) == "Registration failed: " \o e
LoginFailureDetail(e) == "Login failed: " \o e
ResetPasswordFailureDetail(e) == "Failed to reset password: " \o e

\* what a failed request adds to AuthResp: the call that raised and str(e)
FailureInfo(fail, e) == [failed |-> fail, error |-> e]

\* POST /auth/register when the database call `fail` raises e
register_store_raises(email, password, marketing_consent, salt, new_id, fail, e) ==
    LET newUsers == UserRepository_create(users, new_id, email,
                                          hash_password(password, salt)) IN
    /\ AdminUnchanged
    /\ UNCHANGED <<now, resetTokens, hist, pc>>
    /\ fail \in {"exists_by_email", "create", "record"}
    /\ fail # "exists_by_email" => ~UserRepository_exists_by_email(users, email)
    /\ IF fail = "record"
       THEN /\ new_id \in UserIds \ DOMAIN users
            /\ users' = newUsers
            /\ UNCHANGED consents
            /\ resp' = AuthResp("register", 500, RegisterFailureDetail(e), email, password,
                                0, 0, newUsers, resetTokens)
                       @@ RegisterInfo(TRUE, TRUE, marketing_consent, consents)
                       @@ FailureInfo(fail, e)
       ELSE /\ UNCHANGED <<users, consents>>
            /\ resp' = AuthResp("register", 500, RegisterFailureDetail(e), email, password,
                                0, 0, users, resetTokens)
                       @@ RegisterInfo(TRUE, TRUE, marketing_consent, consents)
                       @@ FailureInfo(fail, e)

\* POST /auth/login when UserRepository.get_by_email raises e
login_store_raises(email, password, e) ==
    /\ AdminUnchanged
    /\ UNCHANGED <<now, users, consents, resetTokens, hist, pc>>
    /\ resp' = AuthResp("login", 500, LoginFailureDetail(e), email, password, 0, 0,
                        users, resetTokens)
               @@ FailureInfo("get_by_email", e)

\* POST /auth/reset-password when the database call `fail` raises e; the
\* calls before it have committed
reset_password_store_raises(token, new_password, salt, fail, e) ==
    LET user_id == validate_password_reset_token(resetTokens, users, token, now)
        newUsers == IF fail \in {"mark_used", "invalidate_all_for_user"}
                    THEN UserRepository_update_password(
                             users, user_id, hash_password(new_password, salt))
                    ELSE users
        newTokens == IF fail = "invalidate_all_for_user"
                     THEN mark_password_reset_token_as_used(resetTokens, token)
                     ELSE resetTokens
    IN /\ AdminUnchanged
       /\ UNCHANGED <<now, consents, pc>>
       /\ fail \in {"validate", "update_password", "mark_used", "invalidate_all_for_user"}
       /\ fail # "validate" => user_id # 0
       /\ users' = newUsers
       /\ resetTokens' = newTokens
       /\ hist' = IF newUsers # users
                  THEN [hist EXCEPT
                          !.consumed = @ \cup {token},
                          !.beforeReset = @ \cup
                              {k \in DOMAIN resetTokens : resetTokens[k].user_id = user_id}]
                  ELSE hist
       /\ resp' = AuthResp("reset_password", 500, ResetPasswordFailureDetail(e), "",
                           new_password, token, 0, newUsers, newTokens)
                  @@ FailureInfo(fail, e)

\* the clock advances by one hour
Tick ==
    /\ Idle
    /\ now < MaxTime
    /\ now' = now + 1
    /\ UNCHANGED <<users, consents, resetTokens, hotels, addons, resp, hist, pc, cache>>

\* ------------------------------------- concurrent register requests
\* Each process runs one register request; a step is the code between two
\* awaited database calls, the call included.
IdleProc == [at |-> "idle", email |-> "", password |-> "", marketing |-> FALSE,
             status |-> 0, detail |-> "", created |-> 0]

RaceUnchanged == UNCHANGED <<now, resetTokens, hotels, addons, resp, hist, cache>>

\* consent checks, then await UserRepository.exists_by_email
reg_check(p, email, password, terms_accepted, privacy_accepted, marketing_consent) ==
    /\ pc[p].at = "idle"
    /\ RaceUnchanged
    /\ UNCHANGED <<users, consents>>
    /\ pc' = [pc EXCEPT ![p] =
         IF ~terms_accepted
         THEN [IdleProc EXCEPT !.at = "done", !.email = email, !.status = 400,
                   !.detail = "You must accept the Terms of Service to register"]
         ELSE IF ~privacy_accepted
         THEN [IdleProc EXCEPT !.at = "done", !.email = email, !.status = 400,
                   !.detail = "You must accept the Privacy Policy to register"]
         ELSE IF UserRepository_exists_by_email(users, email)
         THEN [IdleProc EXCEPT !.at = "done", !.email = email, !.status = 400,
                   !.detail = "Email already registered"]
         ELSE [IdleProc EXCEPT !.at = "checked", !.email = email,
                   !.password = password, !.marketing = marketing_consent]]

\* hash_password, then await UserRepository.create; a constraint violation
\* raised by the store is caught by `except Exception`.  unique_email: the
\* users table of the deployment has a unique constraint on email
reg_create(p, salt, new_id, unique_email) ==
    /\ pc[p].at = "checked"
    /\ RaceUnchanged
    /\ UNCHANGED consents
    /\ IF unique_email /\ UsersEmailUniqueViolation(users, pc[p].email)
       THEN /\ UNCHANGED users
            /\ pc' = [pc EXCEPT ![p].at = "done", ![p].status = 500,
                         ![p].detail = "Registration failed: <database error>"]
       ELSE /\ new_id \in UserIds \ DOMAIN users
            /\ users' = UserRepository_create(users, new_id, pc[p].email,
                                              hash_password(pc[p].password, salt))
            /\ pc' = [pc EXCEPT ![p].at = "created", ![p].created = new_id]

\* await ConsentRepository.record (two or three times), then the response
reg_respond(p) ==
    /\ pc[p].at = "created"
    /\ RaceUnchanged
    /\ UNCHANGED users
    /\ LET c1 == ConsentRepository_record(consents, pc[p].created, "terms", TRUE)
           c2 == ConsentRepository_record(c1, pc[p].created, "privacy", TRUE)
       IN consents' = IF pc[p].marketing
                      THEN ConsentRepository_record(c2, pc[p].created, "marketing", TRUE)
                      ELSE c2
    /\ pc' = [pc EXCEPT ![p].at = "done", ![p].status = 201,
                 ![p].detail = "User registered successfully"]

\* ------------------------------- concurrent reset-password requests
\* Each process runs one reset-password request; a step is the code between
\* two awaited database calls, the call included.  Every call takes its own
\* connection from the pool and commits on its own.
ResetRaceUnchanged == UNCHANGED <<now, consents, hotels, addons, resp, hist, cache>>

\* await validate_password_reset_token
rp_validate(p, token, new_password) ==
    LET user_id == validate_password_reset_token(resetTokens, users, token, now) IN
    /\ pc[p].at = "idle"
    /\ ResetRaceUnchanged
    /\ UNCHANGED <<users, resetTokens>>
    /\ pc' = [pc EXCEPT ![p] =
         IF user_id = 0
         THEN [at |-> "done", token |-> token, user_id |-> 0, password |-> new_password,
               pwChanged |-> FALSE, status |-> 400,
               detail |-> "Invalid or expired reset token"]
         ELSE [at |-> "validated", token |-> token, user_id |-> user_id,
               password |-> new_password, pwChanged |-> FALSE, status |-> 0, detail |-> ""]]

\* hash_password, then await UserRepository.update_password
rp_update_password(p, salt) ==
    LET newUsers == UserRepository_update_password(
                        users, pc[p].user_id, hash_password(pc[p].password, salt)) IN
    /\ pc[p].at = "validated"
    /\ ResetRaceUnchanged
    /\ UNCHANGED resetTokens
    /\ users' = newUsers
    /\ pc' = [pc EXCEPT ![p].at = "updated", ![p].pwChanged = (newUsers # users)]

\* await mark_password_reset_token_as_used; its result is not looked at
rp_mark_used(p) ==
    /\ pc[p].at = "updated"
    /\ ResetRaceUnchanged
    /\ UNCHANGED users
    /\ resetTokens' = mark_password_reset_token_as_used(resetTokens, pc[p].token)
    /\ pc' = [pc EXCEPT ![p].at = "marked"]

\* await PasswordResetRepository.invalidate_all_for_user, then the response
rp_invalidate_others(p) ==
    /\ pc[p].at = "marked"
    /\ ResetRaceUnchanged
    /\ UNCHANGED users
    /\ resetTokens' = PasswordResetRepository_invalidate_all_for_user(
                          resetTokens, pc[p].user_id)
    /\ pc' = [pc EXCEPT ![p].at = "done", ![p].status = 200,
                 ![p].detail = "Password has been reset successfully"]

\* ------------------------------------------------ /admin/me, /admin/upload
\* GET /admin/me
get_admin_profile(tok) ==
    LET r == Depends_require_hotel_admin(tok) IN
    /\ AuthUnchanged
    /\ IF ~r.ok THEN AdminReject("get_admin_profile", r, NoHeader, 0)
       ELSE LET user == UserRepository_get_by_id(users, r.user_id) IN
            /\ UNCHANGED <<hotels, addons>>
            /\ resp' = IF ~user.found
                       THEN AdminResp("get_admin_profile", r, NoHeader, 0, hotels, addons,
                                      404, "User not found", NoBody)
                       ELSE AdminResp("get_admin_profile", r, NoHeader, 0, hotels, addons,
                                      200, "", [NoBody EXCEPT !.name = user.row.email])

\* what the PMS backend does with a forwarded upload
UpstreamOutcomes == {"created", "refused", "unreachable"}

\* POST /admin/upload/images: the upload is forwarded to the PMS backend
proxy_upload_images(tok, upstream) ==
    LET r == Depends_require_hotel_admin(tok) IN
    /\ AuthUnchanged
    /\ IF ~r.ok THEN AdminReject("proxy_upload_images", r, NoHeader, 0)
       ELSE /\ UNCHANGED <<hotels, addons>>
            /\ resp' = IF upstream = "created"
                       THEN AdminResp("proxy_upload_images", r, NoHeader, 0, hotels, addons,
                                      201, "", NoBody)
                       ELSE IF upstream = "refused"
                       THEN AdminResp("proxy_upload_images", r, NoHeader, 0, hotels, addons,
                                      400, "PMS upload error", NoBody)
                       ELSE AdminResp("proxy_upload_images", r, NoHeader, 0, hotels, addons,
                                      502, "Failed to upload image", NoBody)

\* ------------------------------------------------------ /admin/superadmin
require_superadmin(user_info) ==
    IF ~user_info.ok THEN user_info
    ELSE IF ~user_info.is_superadmin
    THEN ErrFor(user_info, 403, "Super admin access required")
    ELSE user_info

Depends_require_superadmin(tok) ==
    require_superadmin(get_current_user_with_admin_flag(users, tok, now))

\* SELECT ... FROM booking_hotels (every row)
BookingHotelRepository_list_all(tbl) == DOMAIN tbl

\* SELECT ... WHERE user_id = $1, fetchrow: the rows the store may hand back
BookingHotelRepository_get_by_user_id(tbl, user_id) ==
    {h \in DOMAIN tbl : tbl[h].user_id = user_id}

\* the owner's name, or "Hotel <id>" when the auth store has no such account
\* (the email stands for the name column)
OwnerName(tbl, target_user_id) ==
    IF UserRepository_get_by_id(tbl, target_user_id).found
    THEN UserRepository_get_by_id(tbl, target_user_id).row.email
    ELSE "Hotel"

\* GET /admin/superadmin/check
superadmin_check(tok) ==
    LET r == Depends_require_superadmin(tok) IN
    /\ AuthUnchanged
    /\ IF ~r.ok THEN AdminReject("superadmin_check", r, NoHeader, 0)
       ELSE /\ UNCHANGED <<hotels, addons>>
            /\ resp' = AdminResp("superadmin_check", r, NoHeader, 0, hotels, addons, 200, "",
                                 [NoBody EXCEPT !.flag = TRUE])

\* GET /admin/superadmin/hotels
superadmin_list_hotels(tok) ==
    LET r == Depends_require_superadmin(tok) IN
    /\ AuthUnchanged
    /\ IF ~r.ok THEN AdminReject("superadmin_list_hotels", r, NoHeader, 0)
       ELSE /\ UNCHANGED <<hotels, addons>>
            /\ resp' = AdminResp("superadmin_list_hotels", r, NoHeader, 0, hotels, addons,
                                 200, "",
                                 [NoBody EXCEPT !.ids = BookingHotelRepository_list_all(hotels)])

\* POST /admin/superadmin/hotels; target_user_id 0: no user_id in the body
superadmin_create_hotel(tok, target_user_id, hotel_name, new_id) ==
    LET r == Depends_require_superadmin(tok) IN
    /\ AuthUnchanged
    /\ IF ~r.ok THEN AdminReject("superadmin_create_hotel", r, NoHeader, 0)
       ELSE IF target_user_id = 0
       THEN /\ UNCHANGED <<hotels, addons>>
            /\ resp' = AdminResp("superadmin_create_hotel", r, NoHeader, 0, hotels, addons,
                                 400, "user_id is required", NoBody)
       ELSE IF BookingHotelRepository_get_by_user_id(hotels, target_user_id) # {}
       THEN /\ UNCHANGED <<hotels, addons>>
            /\ \E existing \in BookingHotelRepository_get_by_user_id(hotels, target_user_id) :
                   resp' = AdminResp("superadmin_create_hotel", r, NoHeader, 0, hotels,
                                     addons, 201, "Hotel already exists for this user",
                                     [NoBody EXCEPT !.ids = {existing}])
       ELSE LET name == IF hotel_name # "" THEN hotel_name
                        ELSE OwnerName(users, target_user_id)
                slug == IF BookingHotelRepository_get_by_slug(hotels, slugify(name))
                        THEN slugify(name) \o "-" \o ToString(target_user_id)
                        ELSE slugify(name)
                newHotels == BookingHotelRepository_create(hotels, new_id, name, slug,
                                 target_user_id, ContactColumns("", "", "", "UTC", "EUR"))
            IN /\ new_id \in HotelIds \ DOMAIN hotels
               /\ UNCHANGED addons
               /\ IF HotelsSlugUniqueViolation(hotels, slug)
                  THEN /\ UNCHANGED hotels
                       /\ resp' = AdminResp("superadmin_create_hotel", r, NoHeader, 0,
                                            hotels, addons, 500, "Failed to create hotel",
                                            NoBody)
                  ELSE /\ hotels' = newHotels
                       /\ resp' = AdminResp("superadmin_create_hotel", r, NoHeader, 0,
                                            newHotels, addons, 201, "",
                                            [NoBody EXCEPT !.ids = {new_id}, !.name = name])

\* POST /admin/superadmin/set-password; "": field missing from the body
superadmin_set_password(tok, email, new_password, salt) ==
    LET r == Depends_require_superadmin(tok) IN
    /\ Idle
    /\ UNCHANGED <<now, consents, resetTokens, hotels, addons, hist, pc, cache>>
    /\ IF ~r.ok
       THEN /\ UNCHANGED users
            /\ resp' = AdminResp("superadmin_set_password", r, NoHeader, 0, hotels, addons,
                                 r.status, r.detail, NoBody)
       ELSE IF email = "" \/ new_password = ""
       THEN /\ UNCHANGED users
            /\ resp' = AdminResp("superadmin_set_password", r, NoHeader, 0, hotels, addons,
                                 400, "email and password are required", NoBody)
       ELSE LET user == UserRepository_get_by_email(users, email) IN
            IF ~user.found
            THEN /\ UNCHANGED users
                 /\ resp' = AdminResp("superadmin_set_password", r, NoHeader, 0, hotels,
                                      addons, 404, "User not found", NoBody)
            ELSE /\ users' = UserRepository_update_password(
                                 users, user.id, hash_password(new_password, salt))
                 /\ resp' = AdminResp("superadmin_set_password", r, NoHeader, 0, hotels,
                                      addons, 200, "Password updated", NoBody)

\* ------------------------------------------------- exchange-rate service
\* cache: the module-level _cache of the exchange-rate service, base
\* currency |-> [rates, fetched_at]
CACHE_TTL == 6
MaxClock == 8
\* the base query parameter, and what str.upper makes of it
Bases == {"eur", "EUR", "USD"}
Upper(base) == IF base = "eur" THEN "EUR" ELSE base
\* rate mappings the upstream may serve; EmptyRates is the mapping {}
EmptyRates == <<>>
RateTables == {[GBP |-> 1], [GBP |-> 2]}
\* what the call to the upstream API does: it answers 200 with JSON, it
\* answers an error status (raise_for_status), it times out, or its body is
\* not JSON
UpstreamReplies ==
    {[kind |-> "ok", rates |-> rates] : rates \in RateTables}
    \cup {[kind |-> k, rates |-> EmptyRates] : k \in {"error status", "timeout", "not json"}}

\* get_rates that forgets the cached rates when the upstream fails
get_rates_NoFallback(c, base, t, upstream) ==
    LET b == Upper(base)
        fresh == b \in DOMAIN c /\ t - c[b].fetched_at < CACHE_TTL
    IN IF fresh
       THEN [rates |-> c[b].rates, cache |-> c, called |-> FALSE, raised |-> FALSE]
       ELSE IF upstream.kind = "ok"
       THEN [rates |-> upstream.rates,
             cache |-> [k \in DOMAIN c \cup {b} |->
                           IF k = b THEN [rates |-> upstream.rates, fetched_at |-> t]
                           ELSE c[k]],
             called |-> TRUE, raised |-> FALSE]
       ELSE [rates |-> EmptyRates, cache |-> c, called |-> TRUE, raised |-> FALSE]

\* get_rates that still serves an entry that is exactly CACHE_TTL old
get_rates_FreshAtTTL(c, base, t, upstream) ==
    LET b == Upper(base)
        fresh == b \in DOMAIN c /\ t - c[b].fetched_at <= CACHE_TTL
    IN IF fresh
       THEN [rates |-> c[b].rates, cache |-> c, called |-> FALSE, raised |-> FALSE]
       ELSE IF upstream.kind = "ok"
       THEN [rates |-> upstream.rates,
             cache |-> [k \in DOMAIN c \cup {b} |->
                           IF k = b THEN [rates |-> upstream.rates, fetched_at |-> t]
                           ELSE c[k]],
             called |-> TRUE, raised |-> FALSE]
       ELSE [rates |-> IF b \in DOMAIN c THEN c[b].rates ELSE EmptyRates,
             cache |-> c, called |-> TRUE, raised |-> FALSE]

\* get_rates: the rates returned, the cache afterwards, whether the upstream
\* was called and whether an exception left the function
get_rates(c, base, t, upstream) ==
    LET b == Upper(base)
        fresh == b \in DOMAIN c /\ t - c[b].fetched_at < CACHE_TTL
    IN IF fresh
       THEN [rates |-> c[b].rates, cache |-> c, called |-> FALSE, raised |-> FALSE]
       ELSE IF upstream.kind = "ok"
       THEN [rates |-> upstream.rates,
             cache |-> [k \in DOMAIN c \cup {b} |->
                           IF k = b THEN [rates |-> upstream.rates, fetched_at |-> t]
                           ELSE c[k]],
             called |-> TRUE, raised |-> FALSE]
       ELSE [rates |-> IF b \in DOMAIN c THEN c[b].rates ELSE EmptyRates,
             cache |-> c, called |-> TRUE, raised |-> FALSE]

\* GET /api/exchange-rates
exchange_rates(base, upstream) ==
    LET res == get_rates(cache, base, now, upstream) IN
    /\ Idle
    /\ UNCHANGED <<now, users, consents, resetTokens, hotels, addons, hist, pc>>
    /\ cache' = res.cache
    /\ resp' = [op |-> "exchange_rates",
                status |-> IF res.raised THEN 500 ELSE 200,
                query |-> base, base |-> Upper(base), rates |-> res.rates,
                upstream |-> upstream.kind, called |-> res.called,
                cacheBefore |-> cache]

\* hours pass
hours_pass(h) ==
    /\ Idle
    /\ now + h <= MaxClock
    /\ now' = now + h
    /\ UNCHANGED <<users, consents, resetTokens, hotels, addons, resp, hist, pc, cache>>

\* ------------------------------------------ concurrent get_rates calls
\* Each process runs get_rates; it suspends once, at the outbound HTTP call.
\* cached: what _cache.get(base) returned before the call, <<>> for None.
\* get_rates up to the await: the local variables, and the rates returned
\* at once if the entry is fresh
get_rates_begin(c, base, t) ==
    LET b == Upper(base)
        cached == IF b \in DOMAIN c THEN <<c[b]>> ELSE <<>>
    IN [base |-> b, cached |-> cached,
        fresh |-> cached # <<>> /\ t - cached[1].fetched_at < CACHE_TTL]

\* get_rates after the await that also caches what it returns on a failure
get_rates_resume_CacheFallback(c, b, cached, t, upstream) ==
    LET rates == IF upstream.kind = "ok" THEN upstream.rates
                 ELSE IF cached # <<>> THEN cached[1].rates ELSE EmptyRates
    IN [rates |-> rates,
        cache |-> [k \in DOMAIN c \cup {b} |->
                      IF k = b THEN [rates |-> rates, fetched_at |-> t] ELSE c[k]]]

\* get_rates after the await: the rates returned and the cache afterwards
get_rates_resume(c, b, cached, t, upstream) ==
    IF upstream.kind = "ok"
    THEN [rates |-> upstream.rates,
          cache |-> [k \in DOMAIN c \cup {b} |->
                        IF k = b THEN [rates |-> upstream.rates, fetched_at |-> t]
                        ELSE c[k]]]
    ELSE [rates |-> IF cached # <<>> THEN cached[1].rates ELSE EmptyRates,
          cache |-> c]

ExchangeRaceUnchanged ==
    UNCHANGED <<now, users, consents, resetTokens, hotels, addons, resp>>

\* base.upper(), _cache.get(base), the freshness test, and either the return
\* of the cached rates or the start of the HTTP call
gr_begin(p, base) ==
    LET loc == get_rates_begin(cache, base, now) IN
    /\ pc[p].at = "idle"
    /\ ExchangeRaceUnchanged
    /\ UNCHANGED <<cache, hist>>
    /\ pc' = [pc EXCEPT ![p] =
         IF loc.fresh
         THEN [at |-> "done", base |-> loc.base, cached |-> loc.cached, called |-> FALSE,
               fetched |-> FALSE, returned |-> loc.cached[1].rates]
         ELSE [at |-> "awaiting", base |-> loc.base, cached |-> loc.cached,
               called |-> TRUE, fetched |-> FALSE, returned |-> EmptyRates]]

\* the HTTP call completes or raises, and get_rates runs to its return
gr_resume(p, upstream) ==
    LET res == get_rates_resume(cache, pc[p].base, pc[p].cached, now, upstream) IN
    /\ pc[p].at = "awaiting"
    /\ ExchangeRaceUnchanged
    /\ cache' = res.cache
    /\ hist' = IF upstream.kind = "ok"
               THEN [hist EXCEPT !.fetched = @ \cup {upstream.rates}]
               ELSE hist
    /\ pc' = [pc EXCEPT ![p].at = "done", ![p].fetched = (upstream.kind = "ok"),
                        ![p].returned = res.rates]

\* the caller has its answer; the worker takes the next request
gr_return(p) ==
    /\ pc[p].at = "done"
    /\ ExchangeRaceUnchanged
    /\ UNCHANGED <<cache, hist>>
    /\ pc' = [pc EXCEPT ![p] = IdleProc]

\* hours pass while no call is waiting for the upstream (the HTTP client
\* gives up after 10 seconds)
hours_pass_between_calls(h) ==
    /\ \A p \in Procs : pc[p].at # "awaiting"
    /\ hours_pass(h)

\* ------------------------------------------------------------ initial state
SeedUser(email, status, is_superadmin) ==
    [email |-> email, password_hash |-> hash_password("pw1", "s1"),
     type |-> IF is_superadmin THEN "admin" ELSE "hotel",
     status |-> status, is_superadmin |-> is_superadmin]

SeedHotel(user_id, created_at, name) ==
    [user_id |-> user_id, created_at |-> created_at, name |-> name,
     slug |-> IF name = "" THEN DefaultSlug(user_id) ELSE slugify(name),
     show_addons_step |-> TRUE, updated_at |-> 0]
    @@ ContactColumns("", "", "", "UTC", "EUR") @@ InsertDefaults

Init ==
    /\ now = 1
    /\ users = (SeedOwnerA :> SeedUser("a@x", "verified", FALSE))
               @@ (SeedOwnerB :> SeedUser("b@x", "verified", FALSE))
               @@ (SeedSuperadmin :> SeedUser("root@x", "verified", TRUE))
               @@ (SeedSuspended :> SeedUser("c@x", "suspended", FALSE))
    /\ consents = <<>>
    /\ resetTokens = <<>>
    /\ hotels = (1 :> SeedHotel(SeedOwnerA, 2, "Alpha"))
                @@ (2 :> SeedHotel(SeedOwnerA, 1, ""))
    /\ addons = <<>>
    /\ resp = [op |-> "none"]
    /\ hist = [consumed |-> {}, beforeReset |-> {}, superseded |-> {}]
    /\ pc = [p \in Procs |-> IdleProc]
    /\ cache = <<>>

\* ------------------------------------------------------------ specifications
\* the hotel-settings routes of /admin
Next ==
    \/ \E tok \in AccessTokens, hdr \in HeaderValues : get_setup_status(tok, hdr)
    \/ \E tok \in AccessTokens, hdr \in HeaderValues : get_property_settings(tok, hdr)
    \/ \E tok \in AccessTokens, hdr \in HeaderValues, data \in PropertySettingsUpdate,
          new_id \in HotelIds : update_property_settings(tok, hdr, data, new_id)
    \/ \E tok \in AccessTokens, hdr \in HeaderValues : get_design_settings(tok, hdr)
    \/ \E tok \in AccessTokens, hdr \in HeaderValues, data \in DesignSettingsUpdate :
          update_design_settings(tok, hdr, data)
    \/ \E tok \in AccessTokens, hdr \in HeaderValues : get_addon_settings(tok, hdr)
    \/ \E tok \in AccessTokens, hdr \in HeaderValues, data \in AddonSettingsUpdate :
          update_addon_settings(tok, hdr, data)
    \/ send_response

Spec == Init /\ [][Next]_vars

\* every route of /admin that reads or writes a hotel or an add-on, each
\* PATCH with one request body
AdminNext ==
    \/ \E tok \in AccessTokens, hdr \in HeaderValues : get_setup_status(tok, hdr)
    \/ \E tok \in AccessTokens, hdr \in HeaderValues : get_property_settings(tok, hdr)
    \/ \E tok \in AccessTokens, hdr \in HeaderValues, new_id \in HotelIds :
          update_property_settings(tok, hdr, EmptyBody, new_id)
    \/ \E tok \in AccessTokens, hdr \in HeaderValues : get_design_settings(tok, hdr)
    \/ \E tok \in AccessTokens, hdr \in HeaderValues :
          update_design_settings(tok, hdr, EmptyBody)
    \/ \E tok \in AccessTokens, hdr \in HeaderValues : get_addon_settings(tok, hdr)
    \/ \E tok \in AccessTokens, hdr \in HeaderValues :
          update_addon_settings(tok, hdr, [show_addons_step |-> FALSE])
    \/ \E tok \in AccessTokens, hdr \in HeaderValues : list_addons(tok, hdr)
    \/ \E tok \in AccessTokens, hdr \in HeaderValues, new_id \in AddonIds :
          create_addon(tok, hdr, "spa", new_id)
    \/ \E tok \in AccessTokens, hdr \in HeaderValues, addon_id \in AddonIds :
          update_addon(tok, hdr, addon_id, [name |-> "tour"])
    \/ \E tok \in AccessTokens, hdr \in HeaderValues, addon_id \in AddonIds :
          delete_addon(tok, hdr, addon_id)
    \/ send_response

AdminSpec == Init /\ [][AdminNext]_vars

\* the add-on routes of /admin, and the creation of a hotel by the first
\* PATCH /admin/settings/property of an account
AddonNext ==
    \/ \E tok \in AccessTokens, hdr \in HeaderValues, new_id \in HotelIds :
          update_property_settings(tok, hdr, EmptyBody, new_id)
    \/ \E tok \in AccessTokens, hdr \in HeaderValues : list_addons(tok, hdr)
    \/ \E tok \in AccessTokens, hdr \in HeaderValues, name \in AddonNames,
          new_id \in AddonIds : create_addon(tok, hdr, name, new_id)
    \/ \E tok \in AccessTokens, hdr \in HeaderValues, addon_id \in AddonIds,
          data \in UpdateAddonRequest : update_addon(tok, hdr, addon_id, data)
    \/ \E tok \in AccessTokens, hdr \in HeaderValues, addon_id \in AddonIds :
          delete_addon(tok, hdr, addon_id)
    \/ send_response

AddonSpec == Init /\ [][AddonNext]_vars

\* registration and login, one request at a time
AuthNext ==
    \/ \E email \in Emails, password \in Passwords, terms \in BOOLEAN, privacy \in BOOLEAN,
          marketing \in BOOLEAN, salt \in Salts, new_id \in UserIds :
          register(email, password, terms, privacy, marketing, salt, new_id)
    \/ \E email \in Emails, password \in Passwords : login(email, password)
    \/ send_response

AuthSpec == Init /\ [][AuthNext]_vars

\* the password-reset lifecycle, one request at a time, and the clock
ResetNext ==
    \/ \E email \in Emails, fail \in {"none", "get_by_email", "create_password_reset_token"},
          new_tok \in TokenIds : forgot_password(email, fail, new_tok)
    \/ \E token \in TokenValues, password \in Passwords, salt \in Salts :
          reset_password(token, password, salt)
    \/ Tick
    \/ send_response

ResetSpec == Init /\ [][ResetNext]_vars

\* two register requests whose database calls interleave
RaceNext ==
    \/ \E p \in Procs, email \in Emails, password \in Passwords, terms \in BOOLEAN,
          privacy \in BOOLEAN, marketing \in BOOLEAN :
          reg_check(p, email, password, terms, privacy, marketing)
    \/ \E p \in Procs, salt \in Salts, new_id \in UserIds, unique_email \in BOOLEAN :
          reg_create(p, salt, new_id, unique_email)
    \/ \E p \in Procs : reg_respond(p)

RaceSpec == Init /\ [][RaceNext]_vars

\* validate-token and the session-protected routes, while the clock runs and
\* accounts are suspended, rejected, reinstated or deleted from outside
SessionNext ==
    \/ \E credentials \in Credentials : validate_token(credentials)
    \/ \E tok \in SessionTokens : list_hotels(tok)
    \/ \E tok \in SessionTokens, cur \in Passwords, new \in Passwords :
           change_password(tok, cur, new, "s1")
    \/ \E s \in AccountStatuses : account_status_changed(SeedOwnerA, s)
    \/ account_deleted(SeedOwnerB)
    \/ Tick
    \/ send_response

SessionSpec == Init /\ [][SessionNext]_vars

\* an account that is neither of type hotel nor a superadmin
SeedNonHotel == 5

\* the seed accounts and hotels, and the account SeedNonHotel
RoleInit ==
    /\ now = 1
    /\ users = (SeedOwnerA :> SeedUser("a@x", "verified", FALSE))
               @@ (SeedOwnerB :> SeedUser("b@x", "verified", FALSE))
               @@ (SeedSuperadmin :> SeedUser("root@x", "verified", TRUE))
               @@ (SeedSuspended :> SeedUser("c@x", "suspended", FALSE))
               @@ (SeedNonHotel :> [SeedUser("d@x", "verified", FALSE) EXCEPT !.type = "admin"])
    /\ consents = <<>>
    /\ resetTokens = <<>>
    /\ hotels = (1 :> SeedHotel(SeedOwnerA, 2, "Alpha"))
                @@ (2 :> SeedHotel(SeedOwnerA, 1, ""))
    /\ addons = <<>>
    /\ resp = [op |-> "none"]
    /\ hist = [consumed |-> {}, beforeReset |-> {}, superseded |-> {}]
    /\ pc = [p \in Procs |-> IdleProc]
    /\ cache = <<>>

\* the callers of the role-gated routes: a hotel owner, the superadmin, the
\* non-hotel account, a suspended account, a caller without a valid token
RoleTokens ==
    {JwtToken(u, MaxTime + 1, TRUE) :
        u \in {SeedOwnerA, SeedSuperadmin, SeedNonHotel, SeedSuspended}}
    \cup {MalformedToken}

\* every route of /admin
RoleNext ==
    \/ \E tok \in RoleTokens : list_hotels(tok)
    \/ \E tok \in RoleTokens : get_admin_profile(tok)
    \/ \E tok \in RoleTokens, upstream \in UpstreamOutcomes : proxy_upload_images(tok, upstream)
    \/ \E tok \in RoleTokens : get_setup_status(tok, NoHeader)
    \/ \E tok \in RoleTokens : get_property_settings(tok, NoHeader)
    \/ \E tok \in RoleTokens, new_id \in HotelIds :
          update_property_settings(tok, NoHeader, [property_name |-> "Alpha"], new_id)
    \/ \E tok \in RoleTokens : get_design_settings(tok, NoHeader)
    \/ \E tok \in RoleTokens : update_design_settings(tok, NoHeader, [hero_heading |-> "Alpha"])
    \/ \E tok \in RoleTokens : get_addon_settings(tok, NoHeader)
    \/ \E tok \in RoleTokens :
          update_addon_settings(tok, NoHeader, [show_addons_step |-> FALSE])
    \/ \E tok \in RoleTokens : list_addons(tok, NoHeader)
    \/ \E tok \in RoleTokens, new_id \in AddonIds : create_addon(tok, NoHeader, "spa", new_id)
    \/ \E tok \in RoleTokens, addon_id \in AddonIds :
          update_addon(tok, NoHeader, addon_id, [name |-> "tour"])
    \/ \E tok \in RoleTokens, addon_id \in AddonIds : delete_addon(tok, NoHeader, addon_id)
    \/ \E tok \in RoleTokens : superadmin_check(tok)
    \/ \E tok \in RoleTokens : superadmin_list_hotels(tok)
    \/ \E tok \in RoleTokens, target_user_id \in {0, SeedOwnerA, SeedNonHotel},
          new_id \in HotelIds : superadmin_create_hotel(tok, target_user_id, "", new_id)
    \/ \E tok \in RoleTokens, email \in {"", "a@x", "new@x"} :
          superadmin_set_password(tok, email, "pw2", "s1")
    \/ send_response

RoleSpec == RoleInit /\ [][RoleNext]_vars

\* the exchange-rate endpoint while hours pass and the upstream API answers,
\* fails or times out
ExchangeNext ==
    \/ \E base \in Bases, upstream \in UpstreamReplies : exchange_rates(base, upstream)
    \/ \E h \in {1, CACHE_TTL - 1} : hours_pass(h)
    \/ send_response

ExchangeSpec == Init /\ [][ExchangeNext]_vars

\* change-email and change-password by the two owners, a suspended account
\* and a caller without a valid token
EmailTokens ==
    {JwtToken(u, MaxTime + 1, TRUE) : u \in {SeedOwnerA, SeedOwnerB, SeedSuspended}}
    \cup {MalformedToken}

EmailNext ==
    \/ \E tok \in EmailTokens, password \in Passwords, new_email \in Emails \cup {"b@x"} :
           change_email(tok, password, new_email)
    \/ \E cur \in Passwords, new \in Passwords :
           change_password(JwtToken(SeedOwnerA, MaxTime + 1, TRUE), cur, new, "s1")
    \/ send_response

EmailSpec == Init /\ [][EmailNext]_vars

\* every /auth route that writes, after two accounts have registered: the
\* first gave marketing consent, the second did not
ConsentInit ==
    /\ now = 1
    /\ users = (SeedOwnerA :> SeedUser("a@x", "verified", FALSE))
               @@ (SeedOwnerB :> SeedUser("b@x", "pending", FALSE))
    /\ consents = <<[user_id |-> SeedOwnerA, consent_type |-> "terms", consent_given |-> TRUE],
                    [user_id |-> SeedOwnerA, consent_type |-> "privacy", consent_given |-> TRUE],
                    [user_id |-> SeedOwnerA, consent_type |-> "marketing", consent_given |-> TRUE],
                    [user_id |-> SeedOwnerB, consent_type |-> "terms", consent_given |-> TRUE],
                    [user_id |-> SeedOwnerB, consent_type |-> "privacy", consent_given |-> TRUE]>>
    /\ resetTokens = <<>>
    /\ hotels = (1 :> SeedHotel(SeedOwnerA, 2, "Alpha"))
                @@ (2 :> SeedHotel(SeedOwnerA, 1, ""))
    /\ addons = <<>>
    /\ resp = [op |-> "none"]
    /\ hist = [consumed |-> {}, beforeReset |-> {}, superseded |-> {}]
    /\ pc = [p \in Procs |-> IdleProc]
    /\ cache = <<>>

ConsentNext ==
    \/ \E email \in Emails, terms \in BOOLEAN, privacy \in BOOLEAN, marketing \in BOOLEAN,
          new_id \in UserIds : register(email, "pw1", terms, privacy, marketing, "s1", new_id)
    \/ \E email \in Emails, password \in Passwords : login(email, password)
    \/ \E email \in Emails, new_tok \in TokenIds : forgot_password(email, "none", new_tok)
    \/ \E token \in TokenValues : reset_password(token, "pw2", "s1")
    \/ \E cur \in Passwords :
           change_password(JwtToken(SeedOwnerA, MaxTime + 1, TRUE), cur, "pw2", "s1")
    \/ \E password \in Passwords :
           change_email(JwtToken(SeedOwnerB, MaxTime + 1, TRUE), password, "c@x")
    \/ send_response

ConsentSpec == ConsentInit /\ [][ConsentNext]_vars

\* two reset-password requests whose database calls interleave, after
\* forgot-password requests have issued tokens
ResetRaceNext ==
    \/ \E email \in Emails, new_tok \in TokenIds : forgot_password(email, "none", new_tok)
    \/ send_response
    \/ \E p \in Procs, token \in TokenValues, password \in Passwords :
          rp_validate(p, token, password)
    \/ \E p \in Procs, salt \in Salts : rp_update_password(p, salt)
    \/ \E p \in Procs : rp_mark_used(p)
    \/ \E p \in Procs : rp_invalidate_others(p)

ResetRaceSpec == Init /\ [][ResetRaceNext]_vars

\* get_rates calls for one base currency that overlap at the HTTP call;
\* hist.fetched: the rate mappings the upstream has served so far
ExchangeRaceInit ==
    /\ now = 1
    /\ users = (SeedOwnerA :> SeedUser("a@x", "verified", FALSE))
    /\ consents = <<>>
    /\ resetTokens = <<>>
    /\ hotels = <<>>
    /\ addons = <<>>
    /\ resp = [op |-> "none"]
    /\ hist = [consumed |-> {}, beforeReset |-> {}, superseded |-> {}, fetched |-> {}]
    /\ pc = [p \in Procs |-> IdleProc]
    /\ cache = <<>>

ExchangeRaceNext ==
    \/ \E p \in Procs, base \in {"eur", "EUR"} : gr_begin(p, base)
    \/ \E p \in Procs, upstream \in UpstreamReplies : gr_resume(p, upstream)
    \/ \E p \in Procs : gr_return(p)
    \/ \E h \in {1, CACHE_TTL - 1} : hours_pass_between_calls(h)

ExchangeRaceSpec == ExchangeRaceInit /\ [][ExchangeRaceNext]_vars

\* onboarding: an owner fills in, clears and resets the ten onboarding
\* fields of one hotel, one field per PATCH, and setup-status is read by the
\* owner (with and without X-Hotel-Id) and by an account without hotel
SetupPropertyBodies ==
    {[f \in {field} |-> v] :
        field \in {"property_name", "reservation_email", "phone_number", "address"},
        v \in Names}
    \cup {[timezone |-> v] : v \in {"", "UTC", "Europe/Berlin"}}
    \cup {[default_currency |-> v] : v \in {"", "EUR", "USD"}}

SetupDesignBodies ==
    {[f \in {field} |-> v] :
        field \in {"hero_image", "primary_color", "accent_color", "font_pairing"},
        v \in Names}

SetupNext ==
    \/ \E u \in {SeedOwnerA, SeedOwnerB}, hdr \in {NoHeader, 1} :
          get_setup_status(JwtToken(u, MaxTime + 1, TRUE), hdr)
    \/ \E data \in SetupPropertyBodies :
          update_property_settings(JwtToken(SeedOwnerA, MaxTime + 1, TRUE), 1, data, 3)
    \/ \E data \in SetupDesignBodies :
          update_design_settings(JwtToken(SeedOwnerA, MaxTime + 1, TRUE), 1, data)
    \/ send_response

SetupSpec == Init /\ [][SetupNext]_vars

\* register, login and the password reset while database calls may raise
FailureNext ==
    \/ \E email \in Emails, terms \in BOOLEAN, privacy \in BOOLEAN, new_id \in UserIds :
          register(email, "pw1", terms, privacy, FALSE, "s1", new_id)
    \/ \E email \in Emails, password \in Passwords : login(email, password)
    \/ \E email \in Emails, new_tok \in TokenIds : forgot_password(email, "none", new_tok)
    \/ \E token \in TokenValues : reset_password(token, "pw2", "s2")
    \/ \E email \in Emails, new_id \in UserIds, e \in StoreErrors,
          fail \in {"exists_by_email", "create", "record"} :
          register_store_raises(email, "pw1", FALSE, "s1", new_id, fail, e)
    \/ \E email \in Emails, e \in StoreErrors : login_store_raises(email, "pw1", e)
    \/ \E token \in TokenValues, e \in StoreErrors,
          fail \in {"validate", "update_password", "mark_used", "invalidate_all_for_user"} :
          reset_password_store_raises(token, "pw2", "s2", fail, e)
    \/ send_response

FailureSpec == Init /\ [][FailureNext]_vars

\* ===================================================== properties: /admin
AdminOps == {"get_setup_status", "get_property_settings", "update_property_settings",
             "get_design_settings", "update_design_settings", "get_addon_settings",
             "update_addon_settings", "list_addons", "create_addon", "update_addon",
             "delete_addon"}
AddonOps == {"list_addons", "create_addon", "update_addon", "delete_addon"}

\* hotels the account owns
OwnedBy(tbl, user_id) == {h \in DOMAIN tbl : tbl[h].user_id = user_id}

\* C1: whatever requests came before, an admin route answered for a caller
\* who is not a superadmin has read or written only a hotel row owned by the
\* caller, has created or changed only hotel rows owned by the caller, and
\* has listed, created, changed or deleted only add-on rows of hotels owned
\* by the caller.
C1_OwnerOnly ==
    (resp.op \in AdminOps /\ ~resp.super) =>
        /\ resp.hotel # 0 =>
              resp.hotel \in DOMAIN hotels /\ hotels[resp.hotel].user_id = resp.user
        /\ \A h \in resp.hotelsChanged :
              h \in DOMAIN hotels /\ hotels[h].user_id = resp.user
        /\ \A h \in resp.addonHotelsChanged :
              h \in DOMAIN hotels /\ hotels[h].user_id = resp.user
        /\ \A a \in resp.body.ids :
              a \in DOMAIN addons => addons[a].hotel_id \in OwnedBy(hotels, resp.user)

\* an owner's PATCH has written a hotel row while another account owns a
\* hotel with add-ons of its own
C1_Witness ==
    /\ resp.op = "update_addon_settings"
    /\ ~resp.super
    /\ resp.hotelsChanged # {}
    /\ \E h \in DOMAIN hotels :
          /\ hotels[h].user_id \notin {resp.user, SeedSuperadmin}
          /\ \E a \in DOMAIN addons : addons[a].hotel_id = h

\* the callers the tenant rules speak of: sessions that pass
\* require_hotel_admin and are not a superadmin's
OwnerTokens ==
    {tok \in AccessTokens :
        /\ Depends_require_hotel_admin(tok).ok
        /\ ~Depends_require_hotel_admin(tok).is_superadmin}

\* C2: for a caller A who is not a superadmin, in every reachable state of
\* the stores: without X-Hotel-Id the resolution yields the hotel of A that
\* was created first, or no hotel if A owns none, and require_current_hotel
\* then answers 404 'No hotel found. Please complete property setup first.';
\* with X-Hotel-Id naming a hotel of A it yields exactly that hotel; with
\* X-Hotel-Id naming anything else it answers 403, whether or not a hotel
\* with that id exists.
C2_TenantResolution ==
    Idle =>
    \A tok \in OwnerTokens, hdr \in HeaderValues :
        LET A == Depends_require_hotel_admin(tok).user_id
            own == OwnedBy(hotels, A)
            r == Depends_get_current_hotel(tok, hdr)
            rr == Depends_require_current_hotel(tok, hdr)
        IN /\ (hdr = NoHeader /\ own = {}) =>
                 /\ r.ok /\ r.hotel.id = 0
                 /\ ~rr.ok /\ rr.status = 404
                 /\ rr.detail = "No hotel found. Please complete property setup first."
           /\ (hdr = NoHeader /\ own # {}) =>
                 /\ r.ok /\ r.hotel.id \in own
                 /\ \A g \in own : hotels[r.hotel.id].created_at <= hotels[g].created_at
                 /\ rr.ok /\ rr.hotel.id = r.hotel.id
           /\ (hdr # NoHeader /\ hdr \in own) =>
                 /\ r.ok /\ r.hotel.id = hdr
                 /\ rr.ok /\ rr.hotel.id = hdr
           /\ (hdr # NoHeader /\ hdr \notin own) =>
                 /\ ~r.ok /\ r.status = 403
                 /\ ~rr.ok /\ rr.status = 403

\* a request without the header was resolved to the hotel its caller
\* created first, which is not the caller's hotel with the smallest id
C2_Witness ==
    /\ resp.op = "get_property_settings"
    /\ resp.status = 200
    /\ resp.hdr = NoHeader
    /\ ~resp.super
    /\ resp.hotel # 0
    /\ \E g \in OwnedBy(hotels, resp.user) :
          g < resp.hotel /\ hotels[resp.hotel].created_at < hotels[g].created_at

\* hotel tables that differ from tbl only in hotels owned by other accounts
\* than user_id: each id that is not a hotel of user_id names no hotel, or a
\* hotel of another account
OtherTenantVariants(tbl, user_id) ==
    LET own == OwnedBy(tbl, user_id)
        free == (HotelIds \cup {MaxHotels + 1}) \ own
        others == UserIds \ {user_id}
    IN {[h \in own \cup DOMAIN f |->
            IF h \in own THEN tbl[h]
            ELSE [user_id |-> f[h], created_at |-> 0, name |-> "Other",
                  show_addons_step |-> FALSE]] :
          f \in UNION {[S -> others] : S \in SUBSET free}}

\* C3: for a caller who is not a superadmin and a request carrying
\* X-Hotel-Id, the tenant resolution answers the same in any two states of
\* the stores that differ only in the hotels of other accounts; when the id
\* is not a hotel of the caller that answer is 403 'Hotel not found or
\* access denied', both when no hotel has the id and when the hotel is
\* someone else's.
C3_NoExistenceLeak ==
    Idle =>
    \A tok \in OwnerTokens, hdr \in HeaderValues \ {NoHeader} :
        LET A == Depends_require_hotel_admin(tok).user_id
            r == Depends_get_current_hotel(tok, hdr)
        IN /\ \A alt \in OtherTenantVariants(hotels, A) :
                 /\ get_current_hotel(alt, hdr, Depends_require_hotel_admin(tok)) = r
                 /\ require_current_hotel(
                        get_current_hotel(alt, hdr, Depends_require_hotel_admin(tok)))
                       = Depends_require_current_hotel(tok, hdr)
           /\ hdr \notin OwnedBy(hotels, A) =>
                 /\ ~r.ok /\ r.status = 403
                 /\ r.detail = "Hotel not found or access denied"

\* an owner who named another account's hotel in X-Hotel-Id was answered
\* 403 'Hotel not found or access denied'
C3_Witness ==
    /\ resp.op = "get_design_settings"
    /\ resp.status = 403
    /\ resp.detail = "Hotel not found or access denied"
    /\ resp.user # 0
    /\ ~resp.super
    /\ resp.hdr \in DOMAIN hotels
    /\ hotels[resp.hdr].user_id # resp.user

\* C4: an add-on route answered in the context of resolved hotel H1 has
\* listed only add-ons whose hotel id is H1 (and all of them), has stored a
\* created add-on under H1, has answered 404 to an update or delete that
\* names an add-on of another hotel, and has created, changed or deleted no
\* add-on row of any other hotel.
C4_AddonScope ==
    (resp.op \in AddonOps /\ resp.hotel # 0) =>
        /\ resp.addonHotelsChanged \subseteq {resp.hotel}
        /\ resp.op = "list_addons" =>
              resp.body.ids = {a \in DOMAIN addons : addons[a].hotel_id = resp.hotel}
        /\ resp.op = "create_addon" =>
              /\ resp.status = 201
              /\ resp.addonsChanged = {resp.addon}
              /\ resp.addon \in DOMAIN addons
              /\ addons[resp.addon].hotel_id = resp.hotel
        /\ (/\ resp.op \in {"update_addon", "delete_addon"}
            /\ resp.addon \in DOMAIN addons
            /\ addons[resp.addon].hotel_id # resp.hotel) =>
              /\ resp.status = 404
              /\ resp.addonsChanged = {}

\* an update that named an add-on of another account's hotel was answered
\* 404
C4_Witness ==
    /\ resp.op = "update_addon"
    /\ resp.status = 404
    /\ resp.hotel # 0
    /\ resp.addon \in DOMAIN addons
    /\ addons[resp.addon].hotel_id # resp.hotel
    /\ hotels[addons[resp.addon].hotel_id].user_id # resp.user

\* ====================================================== properties: /auth
\* C5: a reset-password request presenting a token that an earlier request
\* has already redeemed is answered 400 'Invalid or expired reset token'
\* and changes no password hash; so is a request presenting a token past
\* its expiry time or a token the store does not know.
C5_ConsumedAtMostOnce ==
    resp.op = "reset_password" =>
        LET rejected == /\ resp.status = 400
                        /\ resp.detail = "Invalid or expired reset token"
                        /\ ~resp.pwChanged
                        /\ resp.tokensUsed = {}
        IN /\ resp.wasConsumed => rejected
           /\ resp.token \notin DOMAIN resetTokens => rejected
           /\ (/\ resp.token \in DOMAIN resetTokens
               /\ now > resetTokens[resp.token].expires_at) => rejected

\* a token that had reset a password was presented again before its expiry
\* and was rejected
C5_Witness ==
    /\ resp.op = "reset_password"
    /\ resp.wasConsumed
    /\ resp.status = 400
    /\ now <= resetTokens[resp.token].expires_at

\* C6: once forgot-password has created a reset token for a user, no reset
\* token issued to that user before and unused at that moment is redeemable
\* by reset-password.
C6_OlderTokensInvalidated ==
    \A k \in hist.superseded :
        validate_password_reset_token(resetTokens, users, k, now) = 0

\* C7: after a successful reset-password for user U the presented token is
\* marked used, every token of U is used, and none of the tokens U held
\* when a reset succeeded is redeemable afterwards.
C7_NoTokenSurvivesReset ==
    /\ \A k \in hist.beforeReset :
          /\ resetTokens[k].used
          /\ validate_password_reset_token(resetTokens, users, k, now) = 0
    /\ (resp.op = "reset_password" /\ resp.status = 200) =>
          /\ resetTokens[resp.token].used
          /\ \A k \in DOMAIN resetTokens :
                resetTokens[k].user_id = resetTokens[resp.token].user_id
                   => resetTokens[k].used

\* a successful reset marked the presented token and another unused token
\* of the same user used
C7_Witness ==
    /\ resp.op = "reset_password"
    /\ resp.status = 200
    /\ resp.token \in resp.tokensUsed
    /\ Cardinality(resp.tokensUsed) >= 2

\* C8: forgot-password answers 200 with the one generic message for every
\* email and every internal failure; it stores a reset token only when an
\* account with the email exists and is not suspended, and the token stored
\* belongs to that account, is unused and expires one hour after the
\* request.
C8_ForgotPasswordUniform ==
    resp.op = "forgot_password" =>
        /\ resp.status = 200
        /\ resp.detail = GenericForgotMessage
        /\ ~resp.pwChanged
        /\ resp.tokensUsed = {}
        /\ resp.tokensCreated # {} =>
              \E u \in DOMAIN users :
                  /\ users[u].email = resp.email
                  /\ users[u].status # "suspended"
                  /\ \A k \in resp.tokensCreated :
                        resetTokens[k] = [user_id |-> u, expires_at |-> now + 1,
                                          used |-> FALSE]

\* forgot-password for the email of a suspended account was answered with
\* the generic message after a token had been stored for an eligible account
C8_Witness ==
    /\ resp.op = "forgot_password"
    /\ resp.status = 200
    /\ resp.tokensCreated = {}
    /\ \E u \in DOMAIN users : users[u].email = resp.email /\ users[u].status = "suspended"
    /\ resetTokens # <<>>

\* C9: login issues a session token only with status 200, and answers 200
\* only when an account with the email exists, the password matches its
\* stored hash and it is not suspended; a suspended account with the right
\* password is answered 403 without a token; an unknown email and a wrong
\* password for a known email get the same 401 'Invalid email or password'.
C9_LoginGate ==
    resp.op = "login" =>
        LET known == \E u \in DOMAIN users : users[u].email = resp.email
            matches == \E u \in DOMAIN users :
                           /\ users[u].email = resp.email
                           /\ verify_password(resp.password, users[u].password_hash)
            suspended == \E u \in DOMAIN users :
                             users[u].email = resp.email /\ users[u].status = "suspended"
        IN /\ (resp.issuedSub # 0) <=> (resp.status = 200)
           /\ resp.status = 200 =>
                 /\ matches /\ ~suspended
                 /\ resp.issuedSub \in DOMAIN users
                 /\ users[resp.issuedSub].email = resp.email
           /\ (matches /\ suspended) => (resp.status = 403 /\ resp.issuedSub = 0)
           /\ (~known \/ ~matches) =>
                 /\ resp.status = 401
                 /\ resp.detail = "Invalid email or password"
                 /\ resp.issuedSub = 0

\* a wrong password for the email of an account that registered earlier was
\* answered 401
C9_Witness ==
    /\ resp.op = "login"
    /\ resp.status = 401
    /\ \E u \in DOMAIN users :
          /\ users[u].email = resp.email
          /\ u \notin {SeedOwnerA, SeedOwnerB, SeedSuperadmin, SeedSuspended}
          /\ ~verify_password(resp.password, users[u].password_hash)

\* C10: of two register requests with the same email that both passed the
\* consent checks and are answered, whether they ran one after the other or
\* with their database steps interleaved, at most one account with the email
\* exists and each request that did not create it is answered 400 'Email
\* already registered'.
C10_DuplicateRegistration ==
    \A p \in Procs, q \in Procs :
        (/\ p # q
         /\ pc[p].at = "done" /\ pc[q].at = "done"
         /\ pc[p].email = pc[q].email
         /\ pc[p].detail \notin {"You must accept the Terms of Service to register",
                                 "You must accept the Privacy Policy to register"}
         /\ pc[q].detail \notin {"You must accept the Terms of Service to register",
                                 "You must accept the Privacy Policy to register"}) =>
            /\ Cardinality({u \in DOMAIN users : users[u].email = pc[p].email}) <= 1
            /\ pc[p].created = 0 =>
                  (pc[p].status = 400 /\ pc[p].detail = "Email already registered")

\* C11: a register request with terms_accepted false or privacy_accepted
\* false is answered 400 with the message naming the missing consent, the
\* Terms of Service before the Privacy Policy; it creates no account,
\* writes no consent record and issues no token.
C11_ConsentRequired ==
    (resp.op = "register" /\ (~resp.terms_accepted \/ ~resp.privacy_accepted)) =>
        /\ resp.status = 400
        /\ resp.detail = IF ~resp.terms_accepted
                         THEN "You must accept the Terms of Service to register"
                         ELSE "You must accept the Privacy Policy to register"
        /\ resp.usersCreated = {}
        /\ resp.consentsWritten = 0
        /\ resp.issuedSub = 0
        /\ ~resp.pwChanged

\* a register request that accepted the terms but not the privacy policy,
\* for an email no account holds, was answered 400
C11_Witness ==
    /\ resp.op = "register"
    /\ resp.terms_accepted /\ ~resp.privacy_accepted
    /\ resp.status = 400
    /\ ~UserRepository_exists_by_email(users, resp.email)

\* ================================================= properties: sessions
\* a session token (a JWT signed with the service key) past its exp claim
ExpiredSessionToken(tok) == tok.wellformed /\ tok.signed /\ tok.exp # 0 /\ now >= tok.exp
\* a token that is not a JWT, or whose signature is wrong while no exp claim
\* of it has passed
MalformedSessionToken(tok) ==
    \/ ~tok.wellformed
    \/ ~tok.signed /\ (tok.exp = 0 \/ now < tok.exp)

\* C12: an expired session token is always classified as expired and never
\* as malformed: validate-token answers valid=false, expired=true for it and
\* the protected routes (both identity dependencies) answer 401 "Token has
\* expired. Please login again."; a malformed token gets valid=false,
\* expired=false from validate-token and 401 "Invalid token" from the
\* protected routes.
C12_ExpiredNotMalformed ==
    Idle =>
        \A tok \in SessionTokens :
            /\ ExpiredSessionToken(tok) =>
                /\ validate_token_body(users, Bearer(tok), now) =
                       TokenValidationResponse(FALSE, TRUE, 0, "", "")
                /\ get_current_user_id(users, tok, now) =
                       Err(401, "Token has expired. Please login again.")
                /\ Depends_require_hotel_admin(tok) =
                       Err(401, "Token has expired. Please login again.")
            /\ MalformedSessionToken(tok) =>
                /\ validate_token_body(users, Bearer(tok), now) =
                       TokenValidationResponse(FALSE, FALSE, 0, "", "")
                /\ get_current_user_id(users, tok, now) = Err(401, "Invalid token")
                /\ Depends_require_hotel_admin(tok) = Err(401, "Invalid token")

\* a session token that was valid has expired, and validate-token says so
C12_Witness ==
    /\ resp.op = "validate_token"
    /\ resp.credentials = Bearer(JwtToken(SeedOwnerA, 2, TRUE))
    /\ now >= 2
    /\ resp.body.expired /\ ~resp.body.valid

\* the four cases validate-token is to tell apart ("other": a signed token
\* without subject or for a missing account, a forged token past its exp)
CredentialClass(credentials) ==
    IF ~credentials.present THEN "no token"
    ELSE IF MalformedSessionToken(credentials.token) THEN "malformed"
    ELSE IF ExpiredSessionToken(credentials.token) THEN "expired"
    ELSE IF /\ credentials.token.signed
            /\ credentials.token.sub \in DOMAIN users THEN "valid"
    ELSE "other"

\* C13: validate-token always answers 200, and the bodies it gives for "no
\* token", "malformed token", "expired token" and "valid token" are pairwise
\* distinct: the body just sent differs from the body any credentials of
\* another of the four cases would get.
C13_FourDistinctShapes ==
    resp.op = "validate_token" =>
        /\ resp.status = 200
        /\ \A credentials \in Credentials :
               /\ CredentialClass(resp.credentials) # "other"
               /\ CredentialClass(credentials) # "other"
               /\ CredentialClass(credentials) # CredentialClass(resp.credentials)
               => validate_token_body(users, credentials, now) # resp.body

\* the 403 detail of an account status
StatusMessage(s) ==
    IF s = "rejected" THEN "Your account has been rejected. Please contact support."
    ELSE "Your account has been suspended. Please contact support."

\* C14: account status is read from the store on every authenticated
\* request.  Whenever a protected route (either identity dependency) is
\* called with an unexpired token signed by the service, and the token's
\* account is rejected or suspended at that moment, the answer is 403 with
\* the message of that status, whenever the token was issued; if the account
\* no longer exists the answer is 401 "User not found".  Such a request
\* changes no account.
C14_StatusReadEveryRequest ==
    /\ resp.op \in {"list_hotels", "change_password"}
    /\ decode_access_token(resp.token, now).ok
    /\ resp.token.sub # 0
    => /\ resp.account \in {"rejected", "suspended"} =>
              /\ resp.status = 403
              /\ resp.detail = StatusMessage(resp.account)
              /\ resp.usersChanged = {}
       /\ resp.account = "none" =>
              /\ resp.status = 401
              /\ resp.detail = "User not found"
              /\ resp.usersChanged = {}

\* SeedOwnerA, verified at the start, has been suspended since, and a request
\* with a token of SeedOwnerA that has no expiry is refused
C14_Witness ==
    /\ resp.op = "change_password"
    /\ resp.token = JwtToken(SeedOwnerA, 0, TRUE)
    /\ SeedOwnerA \in DOMAIN users /\ users[SeedOwnerA].status = "suspended"
    /\ resp.status = 403

\* C16: admin-role gating checks the status more strictly than identity
\* resolution: a route gated by require_hotel_admin rejects (403) every
\* caller whose account status is not "verified", in particular "pending",
\* while a route behind get_current_user_id lets a "pending" account in.
C16_AdminGateRequiresVerified ==
    /\ resp.op \in {"list_hotels", "change_password"}
    /\ decode_access_token(resp.token, now).ok
    /\ resp.token.sub # 0
    => /\ (resp.op = "list_hotels" /\ resp.account \notin {"verified", "none"}) =>
              resp.status = 403
       /\ (resp.op = "change_password" /\ resp.account = "pending") =>
              resp.status \notin {401, 403}

\* ================================================ properties: role gating
\* the routes of /admin outside /admin/superadmin, and those inside
HotelAdminOps == AdminOps \cup {"list_hotels", "get_admin_profile", "proxy_upload_images"}
SuperadminOps == {"superadmin_check", "superadmin_list_hotels", "superadmin_create_hotel",
                  "superadmin_set_password"}
RoleDetails == {"This endpoint is only available for hotel administrators",
                "Super admin access required"}

\* C15: role gating.  A request of an authenticated caller to a route of
\* /admin outside /admin/superadmin is admitted only if the account is a
\* superadmin or of type "hotel" and is answered 403 otherwise; a request to
\* a route of /admin/superadmin is admitted only if the account is a
\* superadmin and is answered 403 otherwise; an admitted caller is not
\* refused for its role; a request answered 401 or 403 changes no stored row.
C15_RoleGating ==
    [][(Idle /\ resp'.op \in HotelAdminOps \cup SuperadminOps) =>
          /\ resp'.user # 0 =>
                LET caller == users[resp'.user]
                    admitted == IF resp'.op \in SuperadminOps THEN caller.is_superadmin
                                ELSE caller.is_superadmin \/ caller.type = "hotel"
                IN IF admitted
                   THEN ~(resp'.status = 403 /\ resp'.detail \in RoleDetails)
                   ELSE resp'.status = 403 /\ resp'.detail \in RoleDetails
          /\ resp'.status \in {401, 403} =>
                UNCHANGED <<users, consents, resetTokens, hotels, addons>>]_vars

\* the account that is neither hotel nor superadmin was refused the upsert
C15_Witness ==
    /\ resp.op = "update_property_settings"
    /\ resp.user = SeedNonHotel
    /\ resp.status = 403
    /\ resp.detail = "This endpoint is only available for hotel administrators"

\* ============================================ properties: exchange rates
\* C17: when the upstream rate API fails (error status, timeout, exception),
\* get_rates returns the rates of the last successful fetch for that base
\* currency if one is cached and the empty mapping otherwise; it does not
\* raise, it leaves the cache as it was, and GET /api/exchange-rates does not
\* answer 5xx.
C17_UpstreamFailureFallback ==
    (resp.op = "exchange_rates" /\ resp.called /\ resp.upstream # "ok") =>
        /\ resp.rates = IF resp.base \in DOMAIN resp.cacheBefore
                        THEN resp.cacheBefore[resp.base].rates
                        ELSE EmptyRates
        /\ cache = resp.cacheBefore
        /\ resp.status = 200

\* the upstream timed out after the cached rates had gone stale, and the
\* stale rates of the last successful fetch were served
C17_Witness ==
    /\ resp.op = "exchange_rates"
    /\ resp.called /\ resp.upstream = "timeout"
    /\ resp.base \in DOMAIN cache
    /\ now - cache[resp.base].fetched_at >= CACHE_TTL
    /\ resp.rates = cache[resp.base].rates
    /\ resp.rates # EmptyRates

\* ============================================ properties: settings PATCH
PatchOps == {"update_property_settings", "update_design_settings"}
PatchFieldMap(op) ==
    IF op = "update_property_settings" THEN PropertyFieldMap ELSE DESIGN_FIELD_MAP
\* the columns the non-null fields of a request body are stored in
TouchedColumns(op, data) == {PatchFieldMap(op)[f] : f \in DOMAIN data}

\* C18 (as stated): PATCH /admin/settings/property or /admin/settings/design
\* on an existing hotel changes exactly the fields supplied as non-null, on
\* the resolved hotel only: every other field of that hotel and every field
\* of every other hotel is unchanged, and a PATCH with no non-null field
\* changes nothing.
C18_PatchFrameExact ==
    [][(Idle /\ resp'.op \in PatchOps /\ resp'.status = 200 /\ resp'.hotel # 0) =>
          /\ DOMAIN hotels' = DOMAIN hotels
          /\ \A g \in DOMAIN hotels \ {resp'.hotel} : hotels'[g] = hotels[g]
          /\ \A f \in DOMAIN resp'.data :
                 hotels'[resp'.hotel][PatchFieldMap(resp'.op)[f]] = resp'.data[f]
          /\ \A c \in DOMAIN hotels[resp'.hotel] \ TouchedColumns(resp'.op, resp'.data) :
                 hotels'[resp'.hotel][c] = hotels[resp'.hotel][c]
          /\ UNCHANGED <<users, consents, resetTokens, addons>>]_vars

\* C18 (amended): such a PATCH stores the supplied non-null fields in the
\* columns they map to and sets updated_at of the resolved hotel to the time
\* of the request; every other column of that hotel and every column of
\* every other hotel, the caller's other hotels included, is unchanged; a
\* PATCH with no non-null field changes nothing, updated_at included.
C18_PatchFrame ==
    [][(Idle /\ resp'.op \in PatchOps /\ resp'.status = 200 /\ resp'.hotel # 0) =>
          /\ DOMAIN hotels' = DOMAIN hotels
          /\ \A g \in DOMAIN hotels \ {resp'.hotel} : hotels'[g] = hotels[g]
          /\ \A f \in DOMAIN resp'.data :
                 hotels'[resp'.hotel][PatchFieldMap(resp'.op)[f]] = resp'.data[f]
          /\ \A c \in DOMAIN hotels[resp'.hotel]
                         \ (TouchedColumns(resp'.op, resp'.data) \cup {"updated_at"}) :
                 hotels'[resp'.hotel][c] = hotels[resp'.hotel][c]
          /\ hotels'[resp'.hotel].updated_at =
                 IF DOMAIN resp'.data = {} THEN hotels[resp'.hotel].updated_at ELSE now
          /\ UNCHANGED <<users, consents, resetTokens, addons>>]_vars

\* SeedOwnerA renamed the hotel it named in X-Hotel-Id; its other hotel is
\* as it was seeded
C18_Witness ==
    /\ resp.op = "update_property_settings"
    /\ resp.status = 200
    /\ resp.user = SeedOwnerA /\ resp.hdr = 2 /\ resp.hotel = 2
    /\ resp.data = [property_name |-> "Alpha"]
    /\ hotels[2].name = "Alpha" /\ hotels[2].updated_at = now
    /\ hotels[1] = SeedHotel(SeedOwnerA, 2, "Alpha")

\* C19: upsert.  PATCH /admin/settings/property without X-Hotel-Id by an
\* admitted caller who owns no hotel creates exactly one hotel, owned by the
\* caller; the response reflects the supplied fields and GET /admin/hotels
\* of the caller then lists exactly that hotel.  The same request by a
\* caller who owns a hotel, and any request with X-Hotel-Id, creates no
\* hotel.
C19_Upsert ==
    [][(Idle /\ resp'.op = "update_property_settings" /\ resp'.user # 0
             /\ Depends_require_hotel_admin(JwtToken(resp'.user, MaxTime + 1, TRUE)).ok) =>
          IF resp'.hdr = NoHeader /\ OwnedBy(hotels, resp'.user) = {}
          THEN /\ resp'.status = 200
               /\ \E h \in HotelIds \ DOMAIN hotels :
                      /\ DOMAIN hotels' = DOMAIN hotels \cup {h}
                      /\ hotels'[h].user_id = resp'.user
                      /\ BookingHotelRepository_list_by_user_id(hotels', resp'.user) = <<h>>
               /\ \A g \in DOMAIN hotels : hotels'[g] = hotels[g]
               /\ resp'.body.name = IF "property_name" \in DOMAIN resp'.data
                                    THEN resp'.data.property_name ELSE ""
          ELSE DOMAIN hotels' = DOMAIN hotels]_vars

\* ============================================== properties: change-email
\* C20: change-email by an authenticated caller updates the caller's email
\* only if the supplied password matches the stored hash, the new email
\* differs from the current one and no account holds the new email;
\* otherwise it answers 400 "Password is incorrect", 400 "New email is the
\* same as the current email" or 409 "Email is already in use", checked in
\* that order, and leaves every account unchanged.
C20_ChangeEmail ==
    [][(Idle /\ resp'.op = "change_email" /\ resp'.user # 0) =>
          LET row == users[resp'.user] IN
          IF ~verify_password(resp'.password, row.password_hash)
          THEN /\ resp'.status = 400 /\ resp'.detail = "Password is incorrect"
               /\ users' = users
          ELSE IF row.email = resp'.new_email
          THEN /\ resp'.status = 400
               /\ resp'.detail = "New email is the same as the current email"
               /\ users' = users
          ELSE IF \E v \in DOMAIN users : users[v].email = resp'.new_email
          THEN /\ resp'.status = 409 /\ resp'.detail = "Email is already in use"
               /\ users' = users
          ELSE /\ resp'.status = 200
               /\ resp'.body = resp'.new_email
               /\ users' = [users EXCEPT ![resp'.user].email = resp'.new_email]]_vars

\* SeedOwnerB took over the address SeedOwnerA had given up
C20_Witness ==
    /\ resp.op = "change_email"
    /\ resp.status = 200
    /\ resp.user = SeedOwnerB /\ resp.new_email = "a@x"
    /\ users[SeedOwnerB].email = "a@x"
    /\ users[SeedOwnerA].email = "new@x"

\* ============================================== properties: consent history
\* the number of consent records of the given type a user has
ConsentCount(tbl, user_id, consent_type) ==
    Cardinality({i \in DOMAIN tbl :
        tbl[i].user_id = user_id /\ tbl[i].consent_type = consent_type})

RegisterSucceeds == Idle /\ resp'.op = "register" /\ resp'.status = 201

\* C21: a successful registration leaves the new user with exactly one
\* 'terms' record, exactly one 'privacy' record, and one 'marketing' record
\* if marketing consent was given and none otherwise; every step of every
\* operation keeps the records that existed, in place and unchanged, and
\* only a successful registration adds any.
C21_ConsentAppendOnly ==
    [][/\ Len(consents') >= Len(consents)
       /\ SubSeq(consents', 1, Len(consents)) = consents
       /\ ~RegisterSucceeds => consents' = consents
       /\ RegisterSucceeds =>
            \A u \in resp'.usersCreated :
                /\ ConsentCount(consents', u, "terms") = 1
                /\ ConsentCount(consents', u, "privacy") = 1
                /\ ConsentCount(consents', u, "marketing")
                       = (IF resp'.marketing_consent THEN 1 ELSE 0)
                /\ Len(consents') - Len(consents)
                       = (IF resp'.marketing_consent THEN 3 ELSE 2)
                /\ Cardinality(resp'.usersCreated) = 1]_vars

\* two registrations have succeeded, the later one with marketing consent,
\* after a password reset and a change of email
C21_Witness ==
    /\ resp.op = "register" /\ resp.status = 201 /\ resp.marketing_consent
    /\ Len(consents) = 10
    /\ hist.consumed # {}
    /\ \E u \in DOMAIN users : users[u].email = "c@x"

\* ================================= properties: concurrent reset-password
\* C22: of two reset-password requests that carried the same token, at most
\* one has changed the user's password hash and answered 200.
C22_SingleRedemption ==
    \A p, q \in Procs :
        (/\ p # q
         /\ pc[p].at = "done" /\ pc[q].at = "done"
         /\ pc[p].status = 200 /\ pc[q].status = 200
         /\ pc[p].token = pc[q].token)
        => ~(pc[p].pwChanged /\ pc[q].pwChanged)

\* ================================== properties: signature before acceptance
\* a JWT signed with the service key whose exp claim, if any, has not passed
VerifiedToken(tok) == tok.wellformed /\ tok.signed /\ (tok.exp = 0 \/ tok.exp > now)

\* the session tokens, and forged tokens for which is_token_expired answers
\* None (no exp claim) or False (exp ahead), for an owner and the superadmin
ForgedTokens ==
    {JwtToken(u, exp, FALSE) : u \in {SeedOwnerA, SeedSuperadmin}, exp \in {0, 1, MaxTime + 1}}

\* C23: a token is accepted only if it is a JWT that decode_access_token
\* verifies (signature made with the service key, exp not passed), whatever
\* is_token_expired says about it: this holds for get_current_user_id,
\* get_current_user_with_admin_flag and validate-token, for every token a
\* client can present and for every request the service has just answered.
C23_NoAcceptanceWithoutSignature ==
    /\ \A tok \in SessionTokens \cup ForgedTokens :
          /\ get_current_user_id(users, tok, now).ok => VerifiedToken(tok)
          /\ get_current_user_with_admin_flag(users, tok, now).ok => VerifiedToken(tok)
          /\ validate_token_body(users, Bearer(tok), now).valid => VerifiedToken(tok)
          /\ ~VerifiedToken(tok) =>
                /\ get_current_user_id(users, tok, now).status = 401
                /\ get_current_user_with_admin_flag(users, tok, now).status = 401
    /\ resp.op \in {"list_hotels", "change_password"} /\ resp.user # 0
          => VerifiedToken(resp.token)
    /\ resp.op = "validate_token" /\ resp.body.valid
          => resp.credentials.present /\ VerifiedToken(resp.credentials.token)

\* a forged token whose exp claim lies ahead (is_token_expired answers
\* False) has just been refused by a protected route, while the same
\* account's signed token is accepted
C23_Witness ==
    /\ resp.op = "change_password"
    /\ resp.token = JwtToken(SeedOwnerA, MaxTime + 1, FALSE)
    /\ is_token_expired(resp.token, now) = "False"
    /\ resp.status = 401 /\ resp.user = 0
    /\ get_current_user_id(users, JwtToken(SeedOwnerA, MaxTime + 1, TRUE), now).ok

\* ======================================= properties: exchange-rate cache
\* C24: get_rates contacts the upstream API exactly when the cache has no
\* entry for the upper-cased base or that entry is CACHE_TTL (6) hours old or
\* older; otherwise it returns the cached rates, makes no outbound call and
\* leaves the cache as it was; the cache is keyed by the upper-cased code,
\* so "eur" and "EUR" are served alike from one entry.
C24_CacheTTL ==
    /\ DOMAIN cache \subseteq {Upper(base) : base \in Bases}
    /\ \A base \in Bases, upstream \in UpstreamReplies :
          get_rates(cache, base, now, upstream) = get_rates(cache, Upper(base), now, upstream)
    /\ resp.op = "exchange_rates" =>
          /\ resp.base = Upper(resp.query)
          /\ resp.called <=>
                \/ resp.base \notin DOMAIN resp.cacheBefore
                \/ now - resp.cacheBefore[resp.base].fetched_at >= CACHE_TTL
          /\ ~resp.called =>
                /\ resp.rates = resp.cacheBefore[resp.base].rates
                /\ cache = resp.cacheBefore

\* a request for "eur" arrives when the entry fetched for "EUR" is exactly
\* six hours old, and the upstream is contacted
C24_Witness ==
    /\ resp.op = "exchange_rates" /\ resp.query = "eur"
    /\ "EUR" \in DOMAIN resp.cacheBefore
    /\ now - resp.cacheBefore["EUR"].fetched_at = CACHE_TTL
    /\ resp.called

\* ================================= properties: concurrent get_rates calls
\* C25: however get_rates calls for one base interleave around their HTTP
\* calls, after every step (1) each cache entry holds the rates of some
\* successful upstream fetch, (2) no entry has disappeared, and an entry has
\* changed only by the step of a call whose own fetch succeeded, which
\* stored what it fetched, and (3) every call that has returned has returned
\* rates some fetch obtained from the upstream, or the empty mapping.
C25_RaceHarmless ==
    [][/\ \A b \in DOMAIN cache' : cache'[b].rates \in hist'.fetched
       /\ DOMAIN cache \subseteq DOMAIN cache'
       /\ \A b \in DOMAIN cache' :
             (b \notin DOMAIN cache \/ cache'[b] # cache[b]) =>
                 \E p \in Procs :
                     /\ pc[p].at = "awaiting" /\ pc'[p].at = "done"
                     /\ pc'[p].fetched /\ pc'[p].base = b
                     /\ cache'[b].rates = pc'[p].returned
       /\ \A p \in Procs :
             (pc[p].at = "awaiting" /\ pc'[p].at = "done" /\ ~pc'[p].fetched)
                 => cache' = cache
       /\ \A p \in Procs :
             pc'[p].at = "done" =>
                 pc'[p].returned \in hist'.fetched \cup {EmptyRates}]_vars

\* two calls overlapped on a stale entry: the one whose fetch succeeded has
\* stored new rates, the other's fetch failed after that and it returned
\* the older rates it had read before the call, leaving the new entry alone
C25_Witness ==
    \E p, q \in Procs :
        /\ pc[p].at = "done" /\ pc[q].at = "done"
        /\ pc[p].fetched /\ pc[q].called /\ ~pc[q].fetched
        /\ pc[q].cached # <<>> /\ pc[p].cached = pc[q].cached
        /\ pc[q].returned = pc[q].cached[1].rates
        /\ pc[q].returned # pc[p].returned
        /\ cache["EUR"].rates = pc[p].returned

\* ================================================ properties: slug conflict
\* the slug the create path of PATCH /admin/settings/property derives
DerivedSlug(user_id, data) ==
    IF "property_name" \in DOMAIN data /\ data.property_name # ""
    THEN slugify(data.property_name)
    ELSE DefaultSlug(user_id)

OnboardingColumnDefaults ==
    [name |-> ""] @@ ContactColumns("", "", "", "UTC", "EUR") @@ InsertDefaults

\* C27: setup-status answers setup_complete = true exactly when
\* missing_fields is empty; without a resolved hotel all ten onboarding
\* fields are missing; with a resolved hotel a field is missing exactly when
\* the stored value of its column is empty or equal to the column's default.
C27_SetupStatus ==
    (resp.op = "get_setup_status" /\ resp.status = 200) =>
        /\ resp.body.flag <=> resp.body.missing_fields = {}
        /\ resp.hotel = 0 =>
              /\ resp.body.missing_fields = ALL_SETUP_FIELDS
              /\ Cardinality(resp.body.missing_fields) = 10
        /\ resp.hotel # 0 =>
              \A c \in DOMAIN SETUP_FIELD_MAP :
                  SETUP_FIELD_MAP[c] \in resp.body.missing_fields
                      <=> \/ hotels[resp.hotel][c] = ""
                          \/ hotels[resp.hotel][c] = OnboardingColumnDefaults[c]

\* =========================================== properties: generic 500
\* t occurs in s
Contains(s, t) ==
    \E i \in 1..(Len(s) - Len(t) + 1) : SubSeq(s, i, i + Len(t) - 1) = t

\* C28: when a database call raises inside register, login or
\* reset-password the response is 500 and its message is fixed: it is the
\* message the handler gives for any other exception, and the text of the
\* exception does not occur in it.
C28_Generic500 ==
    (resp.op \in {"register", "login", "reset_password"} /\ "error" \in DOMAIN resp) =>
        /\ resp.status = 500
        /\ ~Contains(resp.detail, resp.error)
        /\ \A e \in StoreErrors :
              resp.detail = (CASE resp.op = "register" -> RegisterFailureDetail(e)
                               [] resp.op = "login" -> LoginFailureDetail(e)
                               [] resp.op = "reset_password" -> ResetPasswordFailureDetail(e))

\* ========================================= properties: add-on settings
\* C29: GET /admin/settings/addons answers with the show_addons_step value
\* stored for the hotel it resolved, whether the hotel was resolved from
\* X-Hotel-Id or, without the header, as the owner's first hotel; so after a
\* PATCH has stored false, every GET for that hotel answers false until the
\* next PATCH.
C29_AddonSettingsRead ==
    (resp.op = "get_addon_settings" /\ resp.status = 200) =>
        resp.body.flag = hotels[resp.hotel].show_addons_step

\* ================================ properties: validate-token agreement
\* C30: validate-token and the protected routes agree.  Whenever
\* validate-token has just answered valid = true for a token, and for every
\* token it would answer valid = true for now, get_current_user_id accepts
\* that token against the same accounts at the same time.
C30_ValidateTokenAgrees ==
    /\ resp.op = "validate_token" /\ resp.body.valid
          => get_current_user_id(users, resp.credentials.token, now).ok
    /\ \A tok \in SessionTokens :
          validate_token_body(users, Bearer(tok), now).valid
             => get_current_user_id(users, tok, now).ok

====
